---- MODULE Spec2Model ----
(***************************************************************************)
(* The execution core of agent-swarm-kit for one client: the session       *)
(* gateway (session().complete, ClientSession.execute), the swarm          *)
(* controller (active agent, output wait, cancel) and the turn engine of   *)
(* ClientAgent (EXECUTE_FN, the detached tool dispatch chain, rescue and   *)
(* output emission).                                                       *)
(*                                                                         *)
(* One action is one run of the program between two points where it waits  *)
(* for something outside itself: the completion back-end, a tool body, a   *)
(* signal, a queue.                                                        *)
(***************************************************************************)
EXTENDS Integers, Sequences, FiniteSets, TLC

\* ------------------------------------------------------------------ bounds
MaxExec == 3        \* ClientSession.execute invocations (turns) of the client
MaxComplete == 2    \* of them, calls of session(clientId).complete
MaxCancel == 1      \* calls of the cancelOutput facade
MaxToolCalls == 2   \* the agents' maxToolCalls
MaxRun == 2         \* calls of ClientAgent.run
MaxCommit == 1      \* calls of commitSystemMessage and commitFlush by the embedder
MaxChange == 3      \* calls of the changeAgent facade
MaxPrev == 2        \* calls of the changeToPrevAgent facade
MaxOther == 1       \* agent changes of another client of the swarm
MaxHistoryExec == 1 \* turns of the client that flushes and navigates back
MaxSwarmExec == 1   \* turns of the client whose embedder changes the agent
TimeoutSeconds == 3 \* the timeoutSeconds given to makeAutoDispose
MaxSeconds == 7     \* seconds of wall clock that pass after makeAutoDispose
MaxTicks == 4       \* calls of tick() on the handle of makeAutoDispose
MaxSend == 1        \* calls of the send function returned by makeConnection
MaxFacade == 1      \* calls of execute(message, clientId) by the embedder
MaxStrategyExec == 1 \* turns of the client whose rescue strategy is any
MaxWatchdogExec == 2 \* turns of the client whose tools outlast the watchdog
MaxCancelExec == 2  \* turns of the client whose embedder cancels the output
MaxStorageOps == 3  \* upsert, remove and clear calls on the storage instance

\* --------------------------------------------------------------- constants
Agents == {"triage", "sales"}
DefaultAgent == "triage"
Strategies == {"flush", "recomplete", "custom"}
ExecIds == 1..MaxExec
RunIds == 1..MaxRun

\* The other agent of the swarm: the target a navigation tool changes to.
Other(a) == CHOOSE b \in Agents : b # a

\* What a tool call of the completion does when it is looked up, validated
\* and started.
\*   missing  no tool of that name      invalid  tool.validate returns false
\*   commit   commitToolOutput          throw    the body throws
\*   nav      changeAgent, then execute exec     execute on the own client
\*   stop     commitStopTools           silent   returns, no signal
ToolKinds == {"missing", "invalid", "commit", "throw", "nav", "exec", "stop", "silent"}

\* The tool_calls lists the completion back-end answers with.
ToolLists ==
  {<<k>> : k \in ToolKinds} \cup
  {<<"commit", "commit">>, <<"commit", "missing">>, <<"throw", "commit">>,
   <<"commit", "commit", "throw">>}

\* The texts the completion back-end answers with: valid, invalid, and valid
\* once the output transform has stripped its tags.
Texts == {"ok", "bad", "tagged"}

\* A message of the completion back-end.
Outputs ==
  [tools : {<<>>}, text : Texts] \cup [tools : ToolLists, text : {""}]

\* A string handed to a caller: the text and the turn that produced it.
Str(k, e) == [k |-> k, t |-> e]
Empty == Str("", 0)

\* A history entry.
Msg(role, e, text) == [role |-> role, of |-> e, text |-> text]

VARIABLES
  strategy,         \* GLOBAL_CONFIG.CC_RESQUE_STRATEGY
  activeAgent,      \* ClientSwarm._activeAgent
  navigationStack,  \* ClientSwarm navigation stack
  history,          \* per agent, the raw message log
  agentQueue,       \* per agent, the calls queued on ClientAgent.execute
  ex,               \* per ClientSession.execute invocation, the call and its turn
  cancels           \* cancelOutput calls made so far

VARIABLES
  runs,             \* per invocation of ClientAgent.run, the call
  runQueue,         \* per agent, the calls queued on ClientAgent.run
  commits           \* commitSystemMessage calls made so far

VARIABLES
  nav,              \* the changeToPrevAgent call of the client, where it is
  prevs,            \* changeToPrevAgent calls made so far
  changes,          \* changeAgent calls made so far
  agentMemo,        \* per agent, the instance memoized by AgentConnection.getAgent
  agentMap,         \* per agent, the instance registered in ClientSwarm
  instances,        \* ClientAgent instances constructed so far
  agentChanged,     \* onAgentChanged invocations so far
  trail,            \* the last ClientSwarm operations on the active agent
  activeAgentStorage, \* PersistSwarmUtils: per client, the stored active agent
  others            \* agent changes of the other client so far

VARIABLES
  autoDispose,      \* the subscription made by makeAutoDispose and its clock
  outputList,       \* the messages the connector of makeConnection was called with
  toolWarnings,     \* the tool calls the no-output warning was printed for
  storage,          \* the ClientStorage instance: its item map, its dispatched calls, its init
  persistList       \* the PersistList instance: its files, its last count, its push and pop calls

\* The state of the facade functions around the session.
functionsSide == <<autoDispose, outputList, toolWarnings,
                   storage,
                   persistList>>

\* The state of the swarm controller and the connection layer.
swarmSide == <<nav, prevs, changes, agentMemo, agentMap, instances, agentChanged,
               trail, activeAgentStorage, others, functionsSide>>

\* The state that the turns of execute leave alone.
aside == <<runs, runQueue, commits, swarmSide>>

vars == <<strategy, activeAgent, navigationStack, history, agentQueue, ex, cancels,
          aside>>

\* ------------------------------------------------------------- the record
\* via     how the message was submitted: "complete" (session().complete),
\*         "execute" (the execute facade, from a tool body), "none" (unused)
\* parent  the turn whose tool body submitted it (0: the embedder)
\* pidx    the index of that tool call in its turn
\* cstat   the caller's view: idle | queued | waiting | returned | rejected
\* result  what the caller was given
\* wagent  the agent whose output the caller's waitForOutput is subscribed to
\* agent   the agent that runs the turn
\* pc      EXECUTE_FN: none | queued | completion | done | rejected
\* tools   the tool calls of the turn, after truncation
\* body    per tool call: idle | run | after | nav2 | wait | ret | thrown
\* cidx    the tool call the dispatch chain is at
\* cpc     the dispatch chain: none | ready | await | done | failed
\* last    the status the chain ended with
\* outs    values this turn published to the output signal
\* resc    invocations of _resurrectModel in this turn
\* after   invocations of onAfterToolCalls in this turn
\* ncomp   calls of completion.getCompletion in this turn
\* fatal   the rescue of this turn failed ("model resurrect failed")
\* cancelled  the caller's state when a cancelOutput for the active agent was
\*         issued during the call: no | queued | waiting
\* ncalls  message.tool_calls.length of the completion's answer in this turn
\* inst    the ClientAgent instance swarm.getAgent() gave for this turn
NoExec ==
  [via |-> "none", parent |-> 0, pidx |-> 0, cstat |-> "idle", result |-> Empty,
   wagent |-> DefaultAgent, agent |-> DefaultAgent, pc |-> "none",
   tools |-> <<>>, body |-> <<>>, cidx |-> 0, cpc |-> "none", last |-> "null",
   outs |-> 0, resc |-> 0, after |-> 0, ncomp |-> 0, fatal |-> FALSE,
   cancelled |-> "no", ncalls |-> 0, inst |-> 0, onres |-> 0, sig |-> 0]

\* An invocation of ClientAgent.run.
\* agent   the agent it was called on
\* pc      RUN_FN: none | queued | completion | done
\* result  what it returned
NoRun == [agent |-> DefaultAgent, pc |-> "none", result |-> ""]

\* The clients of the swarm: the one whose turns are modelled, and another.
Clients == {"c1", "c2"}
Client == "c1"
OtherClient == "c2"

\* No document stored under the client's key.
NoValue == "none"

\* A call of changeToPrevAgent.
\* pc      idle | popped | notified | disposed | hdisposed | refset
\* target  the agent navigationPop returned
\* cur     the agent getAgentName returned, whose instance is replaced
\* empty   navigationPop found the stack empty
NoNav == [pc |-> "idle", target |-> DefaultAgent, cur |-> DefaultAgent, empty |-> FALSE]

\* The items a storage holds: their ids and their contents.
ItemIds == {1, 2}
ItemValues == {"x", "y"}

\* The item map of a storage, NoValue where the id has no item.
EmptyItems == [i \in ItemIds |-> NoValue]

\* The data that params.getData loads for the storage.
InitialData == [i \in ItemIds |-> IF i = 1 THEN "x" ELSE NoValue]

\* The mutations a caller can ask of a storage.
StorageOps ==
  [kind : {"upsert"}, id : ItemIds, value : ItemValues]
    \cup [kind : {"remove"}, id : ItemIds, value : {NoValue}]
    \cup [kind : {"clear"}, id : {1}, value : {NoValue}]

StorageCalls == 1..MaxStorageOps

\* A call of upsert, remove or clear that was not made yet.
NoStorageCall == [op |-> [kind |-> "clear", id |-> 1, value |-> NoValue],
                  pc |-> "none", data |-> EmptyItems]

\* A storage right after its construction: nothing loaded, nothing called.
NoStorage == [itemMap |-> EmptyItems, init |-> "none",
              calls |-> [k \in StorageCalls |-> NoStorageCall]]

\* PersistList: the keys of the files a directory can hold, the items, and the
\* calls of push and pop.
MaxOld == 2
MaxPush == 2
MaxPop == 2
ListKeys == 1..(MaxOld + MaxPush)
Pushes == 1..MaxPush
Pops == 1..MaxPop
NoItem == 0
OldItem(k) == 10 + k
NewItem(p) == 20 + p
Null == 0 - 1
NoFiles == [k \in ListKeys |-> NoItem]
NoPush == [pc |-> "none", key |-> 0]
NoPop == [pc |-> "none", key |-> 0, result |-> NoItem, counted |-> FALSE]
NoList == [files |-> NoFiles, lastCount |-> Null,
           pushes |-> [p \in Pushes |-> NoPush], pops |-> [q \in Pops |-> NoPop]]

\* makeAutoDispose has just returned: the joined source is subscribed, neither
\* the state emitter nor the interval has emitted, and the reducer holds its
\* seed.  idle counts the whole seconds since the last tick() (since the call,
\* before the first), seconds and ticks count the clock and the calls.
NoAutoDispose ==
  [subscribed |-> TRUE, isOk |-> FALSE, interval |-> FALSE, ticker |-> 0,
   disposed |-> FALSE, idle |-> 0, seconds |-> 0, ticks |-> 0]

\* The instances built when the swarm of the session was attached.
FirstInstance(a) == IF a = DefaultAgent THEN 1 ELSE 2

Init ==
  /\ strategy = "flush"
  /\ activeAgent = DefaultAgent
  /\ navigationStack = <<>>
  /\ history = [a \in Agents |-> <<>>]
  /\ agentQueue = [a \in Agents |-> <<>>]
  /\ ex = [e \in ExecIds |-> NoExec]
  /\ cancels = 0
  /\ runs = [r \in RunIds |-> NoRun]
  /\ runQueue = [a \in Agents |-> <<>>]
  /\ commits = 0
  /\ nav = NoNav
  /\ prevs = 0
  /\ changes = 0
  /\ agentMemo = [a \in Agents |-> FirstInstance(a)]
  /\ agentMap = [a \in Agents |-> FirstInstance(a)]
  /\ instances = Cardinality(Agents)
  /\ agentChanged = 0
  /\ trail = <<>>
  /\ activeAgentStorage = [c \in Clients |-> NoValue]
  /\ others = 0
  /\ autoDispose = NoAutoDispose
  /\ outputList = <<>>
  /\ toolWarnings = {}
  /\ storage = NoStorage
  /\ persistList = NoList

\* A new client under any of the rescue strategies of the configuration.
InitStrategy ==
  /\ strategy \in Strategies
  /\ activeAgent = DefaultAgent
  /\ navigationStack = <<>>
  /\ history = [a \in Agents |-> <<>>]
  /\ agentQueue = [a \in Agents |-> <<>>]
  /\ ex = [e \in ExecIds |-> NoExec]
  /\ cancels = 0
  /\ runs = [r \in RunIds |-> NoRun]
  /\ runQueue = [a \in Agents |-> <<>>]
  /\ commits = 0
  /\ nav = NoNav
  /\ prevs = 0
  /\ changes = 0
  /\ agentMemo = [a \in Agents |-> FirstInstance(a)]
  /\ agentMap = [a \in Agents |-> FirstInstance(a)]
  /\ instances = Cardinality(Agents)
  /\ agentChanged = 0
  /\ trail = <<>>
  /\ activeAgentStorage = [c \in Clients |-> NoValue]
  /\ others = 0
  /\ autoDispose = NoAutoDispose
  /\ outputList = <<>>
  /\ toolWarnings = {}
  /\ storage = NoStorage
  /\ persistList = NoList

\* The world the signal handlers act on: the calls and turns, and the logs.
World(x, h) == [ex |-> x, hist |-> h]

\* ------------------------------------------------- the agent's pure hooks
\* params.transform (CC_AGENT_OUTPUT_TRANSFORM): strips the tags of the text.
Transform(text) == IF text = "tagged" THEN "ok" ELSE text

\* params.validate applied to a model text: TRUE when it returns null.
Validate(text) == text = "ok"

\* The draws of one createPlaceholder() each: whether the agent's validate
\* accepts the first and the second placeholder of a turn.
PhDraws == {<<TRUE, TRUE>>, <<FALSE, TRUE>>, <<FALSE, FALSE>>}

\* getCompletion answers with a second message only under recomplete and
\* custom, after a first text that fails validation.
NeedsSecond(o) == strategy # "flush" /\ o.tools = <<>> /\ ~Validate(Transform(o.text))

\* The answers of the back-end to the (at most two) calls of one getCompletion.
Draws == {d \in Outputs \X Outputs : NeedsSecond(d[1]) \/ d[2] = d[1]}

\* The same for the getCompletion inside a rescue.
RescueOutputs == {o \in Outputs : o.tools \in {<<>>, <<"commit">>} /\ o.text # "tagged"}
RescueDraws ==
  IF strategy = "flush" THEN {<<[tools |-> <<>>, text |-> "ok"], [tools |-> <<>>, text |-> "ok"]>>}
  ELSE {d \in RescueOutputs \X RescueOutputs : NeedsSecond(d[1]) \/ d[2] = d[1]}

\* ------------------------------------------------------ history and signals
Push(W, a, m) == [W EXCEPT !.hist[a] = Append(@, m)]

\* A dispatch chain that records the stopping signal and moves on to the next
\* tool call all the same.
HandleStopMovesOn(x, s) ==
  IF x.cidx = Len(x.tools)
    THEN [x EXCEPT !.after = @ + 2, !.cpc = "done", !.last = s]
    ELSE [x EXCEPT !.cidx = @ + 1, !.cpc = "ready", !.last = s]

\* A dispatch chain that observes agent-change, tool-stop or rescue calls
\* onAfterToolCalls, every later step of the chain returns the status at
\* once, and the chain's finally calls onAfterToolCalls again.
HandleStop(x, s) == [x EXCEPT !.after = @ + 2, !.cpc = "done", !.last = s]

\* A dispatch chain that does not react to tool-commit.
HandleCommitIgnored(x) == x

\* A dispatch chain that observes tool-commit moves on to the next tool call;
\* after the last one its finally calls onAfterToolCalls.
HandleCommit(x) ==
  IF x.cidx = Len(x.tools)
    THEN [x EXCEPT !.cpc = "done", !.last = "commit", !.after = @ + 1]
    ELSE [x EXCEPT !.cidx = @ + 1, !.cpc = "ready"]

\* A signal that only the first of the waiting chains of agent a observes.
WaitingFirst(W, a) ==
  {e \in ExecIds : /\ W.ex[e].cpc = "await" /\ W.ex[e].agent = a
                   /\ \A c \in ExecIds :
                        (W.ex[c].cpc = "await" /\ W.ex[c].agent = a) => e <= c}

\* The chains that wait on the five subjects of agent a.
Waiting(W, a) == {e \in ExecIds : W.ex[e].cpc = "await" /\ W.ex[e].agent = a}

\* Subject.next on _toolCommitSubject, _agentChangeSubject, _toolStopSubject
\* or _resqueSubject of agent a: every chain racing on them gets the status.
SignalChains(W, a, s) ==
  [W EXCEPT !.ex = [e \in ExecIds |->
     IF e \in Waiting(W, a)
       THEN IF s = "commit" THEN HandleCommit(W.ex[e]) ELSE HandleStop(W.ex[e], s)
       ELSE W.ex[e]]]

\* _outputSubject.next(v) of agent a, by turn e: every waitForOutput
\* subscribed to that agent resolves with v.
Publish(W, a, v, e) ==
  [W EXCEPT !.ex = [c \in ExecIds |->
     LET x == IF c = e THEN [W.ex[c] EXCEPT !.outs = @ + 1] ELSE W.ex[c]
     IN IF x.cstat = "waiting" /\ x.wagent = a
          THEN [x EXCEPT !.cstat = "returned", !.result = v]
          ELSE x]]

\* ClientSwarm.cancelOutput: every pending waitForOutput of the swarm
\* resolves with the empty string.
CancelWaits(x) ==
  [c \in ExecIds |->
     IF x[c].cstat = "waiting"
       THEN [x[c] EXCEPT !.cstat = "returned", !.result = Empty]
       ELSE x[c]]

\* ----------------------------------------------------------- getCompletion
\* ClientAgent.getCompletion of turn e, the back-end answering d[1], d[2].
GetCompletion(W, e, d) ==
  LET a == W.ex[e].agent
      first == [W EXCEPT !.ex[e].ncomp = @ + 1]
  IN IF ~NeedsSecond(d[1])
       THEN [w |-> first, msg |-> d[1]]
       ELSE IF strategy = "recomplete"
         THEN [w |-> [Push(first, a, Msg("user", e, "recomplete-prompt"))
                        EXCEPT !.ex[e].ncomp = @ + 1],
               msg |-> d[2]]
         ELSE [w |-> first, msg |-> d[2]]

\* _resurrectModel that appends the two messages and signals nothing.
ResurrectSilent(W, e, reason, d) ==
  LET a == W.ex[e].agent
  IN Push(Push(W, a, Msg("resque", e, reason)), a, Msg("user", e, "flush-prompt"))

\* ---------------------------------------------------------------- rescue
\* _resqueSubject.next(MODEL_RESQUE_SYMBOL) of agent a, in the rescue of turn e.
ResqueNext(W, e, a) == SignalChains([W EXCEPT !.ex[e].sig = @ + 1], a, "rescue")

\* _resurrectModel that returns without the rescue signal when its completion
\* answers with tool calls.
ResurrectQuietOnToolCalls(W, e, reason, d) ==
  LET a == W.ex[e].agent
      w1 == Push(Push([W EXCEPT !.ex[e].resc = @ + 1, !.ex[e].onres = @ + 1],
                      a, Msg("resque", e, reason)),
                 a, Msg("user", e, "flush-prompt"))
  IN IF strategy = "flush"
       THEN ResqueNext(w1, e, a)
       ELSE LET g == GetCompletion(w1, e, d)
            IN IF g.msg.tools # <<>>
                 THEN Push(g.w, a, Msg("resque", e, "no-tool-calls"))
                 ELSE IF ~Validate(Transform(g.msg.text))
                   THEN ResqueNext(Push(g.w, a, Msg("resque", e, "failed-validation")),
                                   e, a)
                   ELSE ResqueNext(Push(g.w, a, Msg("assistant", e, g.msg.text)), e, a)

\* ClientAgent._resurrectModel in turn e; it calls onResurrect, and it returns
\* a placeholder on every path.
Resurrect(W, e, reason, d) ==
  LET a == W.ex[e].agent
      w1 == Push(Push([W EXCEPT !.ex[e].resc = @ + 1, !.ex[e].onres = @ + 1],
                      a, Msg("resque", e, reason)),
                 a, Msg("user", e, "flush-prompt"))
  IN IF strategy = "flush"
       THEN ResqueNext(w1, e, a)
       ELSE LET g == GetCompletion(w1, e, d)
                w2 == IF g.msg.tools # <<>>
                        THEN Push(g.w, a, Msg("resque", e, "no-tool-calls"))
                        ELSE IF ~Validate(Transform(g.msg.text))
                          THEN Push(g.w, a, Msg("resque", e, "failed-validation"))
                          ELSE Push(g.w, a, Msg("assistant", e, g.msg.text))
            IN ResqueNext(w2, e, a)

\* _emitOutput that rescues again for as long as the placeholder is rejected:
\* a third rescue after the second.
RescueEmitRetries(W, e, reason, ph, d1, d2) ==
  LET a == W.ex[e].agent
      w1 == Resurrect(W, e, reason, d1)
  IN IF ph[1]
       THEN [w |-> Publish(w1, a, Str("ph", e), e), ok |-> TRUE]
       ELSE LET w2 == Resurrect(w1, e, "validation", d2)
            IN IF ph[2]
                 THEN [w |-> Publish(w2, a, Str("ph", e), e), ok |-> TRUE]
                 ELSE [w |-> [Resurrect(w2, e, "validation", d2)
                                EXCEPT !.ex[e].fatal = TRUE],
                       ok |-> FALSE]

\* _resurrectModel followed by _emitOutput of its placeholder, in turn e:
\* ok tells whether a value was published (FALSE: "model resurrect failed").
RescueEmit(W, e, reason, ph, d1, d2) ==
  LET a == W.ex[e].agent
      w1 == Resurrect(W, e, reason, d1)
  IN IF ph[1]
       THEN [w |-> Publish(w1, a, Str("ph", e), e), ok |-> TRUE]
       ELSE LET w2 == Resurrect(w1, e, "validation", d2)
            IN IF ph[2]
                 THEN [w |-> Publish(w2, a, Str("ph", e), e), ok |-> TRUE]
                 ELSE [w |-> [w2 EXCEPT !.ex[e].fatal = TRUE], ok |-> FALSE]

\* A chain that rescues the tool-error and goes on to the next tool call.
ChainErrorContinue(W, e, ph, d1, d2) ==
  LET r == RescueEmit(W, e, "call-failed", ph, d1, d2)
      x == r.w.ex[e]
  IN IF x.cidx < Len(x.tools)
       THEN [r.w EXCEPT !.ex[e].cpc = "ready", !.ex[e].cidx = @ + 1,
                        !.ex[e].last = "error"]
       ELSE [r.w EXCEPT !.ex[e].cpc = IF r.ok THEN "done" ELSE "failed",
                        !.ex[e].last = "error",
                        !.ex[e].after = @ + 1]

\* tool-error observed by chain e: rescue, emit the placeholder; the chain's
\* finally calls onAfterToolCalls whether or not the emit threw.
ChainError(W, e, ph, d1, d2) ==
  LET r == RescueEmit(W, e, "call-failed", ph, d1, d2)
  IN [r.w EXCEPT !.ex[e].cpc = IF r.ok THEN "done" ELSE "failed",
                 !.ex[e].last = "error",
                 !.ex[e].after = @ + 1]

RECURSIVE ErrorFold(_, _, _, _, _)
ErrorFold(W, S, ph, d1, d2) ==
  IF S = {} THEN W
  ELSE LET e == CHOOSE x \in S : \A y \in S : x <= y
       IN ErrorFold(ChainError(W, e, ph, d1, d2), S \ {e}, ph, d1, d2)

\* Subject.next on _toolErrorSubject of agent a: every chain racing on the
\* five subjects gets tool-error, and each then runs its rescue.
ErrorSignal(W, a, ph, d1, d2) ==
  LET S == Waiting(W, a)
      W0 == [W EXCEPT !.ex = [e \in ExecIds |->
               IF e \in S THEN [W.ex[e] EXCEPT !.cpc = "error"] ELSE W.ex[e]]]
  IN ErrorFold(W0, S, ph, d1, d2)

\* ------------------------------------------------------------ the swarm
\* setAgentName that pushes the new agent onto the navigation stack.
SetAgentNamePushesNew(name, x) ==
  /\ navigationStack' = Append(navigationStack, name)
  /\ activeAgent' = name
  /\ ex' = CancelWaits(x)

\* setAgentName that switches the agent and leaves the pending waits alone.
SetAgentNameSilently(name, x) ==
  /\ navigationStack' = Append(navigationStack, activeAgent)
  /\ activeAgent' = name
  /\ ex' = x

\* ClientSwarm.setAgentName while the calls are x: push the prior agent onto
\* the navigation stack, switch the active agent, fire cancelOutput.
SetAgentName(name, x) ==
  /\ navigationStack' = Append(navigationStack, activeAgent)
  /\ activeAgent' = name
  /\ ex' = CancelWaits(x)

\* ------------------------------------------------------------ the session
\* The unused call record with the smallest id.
Fresh(e) == ex[e].via = "none" /\ \A f \in ExecIds : f < e => ex[f].via # "none"

\* session(clientId).complete is queued: a call runs once every earlier call
\* of complete has settled.
CompleteTurn(e) ==
  \A f \in ExecIds :
    (f < e /\ ex[f].via = "complete") => ex[f].cstat \in {"returned", "rejected"}

\* ClientAgent.execute not wrapped in queued: a call runs at once.
AgentTurnUnqueued(e) == TRUE

\* ClientAgent.execute queued until the tool calls of the earlier turns of
\* the agent have ended, as if EXECUTE_FN awaited its dispatch chain.
AgentTurnAfterTools(e) ==
  /\ agentQueue[ex[e].agent] # <<>> /\ Head(agentQueue[ex[e].agent]) = e
  /\ \A f \in ExecIds :
       ex[f].agent = ex[e].agent => ex[f].cpc \notin {"ready", "await", "error"}

\* ClientAgent.execute is queued: a call runs once it is the oldest of the
\* agent's queue.
AgentTurn(e) ==
  agentQueue[ex[e].agent] # <<>> /\ Head(agentQueue[ex[e].agent]) = e

\* ClientSession.execute: take the active agent, subscribe to the swarm's
\* output, start agent.execute without awaiting it.
Submitted(x) ==
  [x EXCEPT !.cstat = "waiting", !.wagent = activeAgent, !.agent = activeAgent,
            !.pc = "queued", !.inst = agentMap[activeAgent]]

\* A dispatch that keeps every tool call of the answer.
TruncateNone(tools) == tools

\* toolCalls.slice(0, maxToolCalls)
Truncate(tools) == SubSeq(tools, 1, IF Len(tools) < MaxToolCalls THEN Len(tools) ELSE MaxToolCalls)

\* The first tool call of the list that fails lookup or validation, 0 if none.
FirstBad(tools) ==
  IF \E i \in 1..Len(tools) : tools[i] \in {"missing", "invalid"}
    THEN CHOOSE i \in 1..Len(tools) :
           /\ tools[i] \in {"missing", "invalid"}
           /\ \A j \in 1..(i - 1) : tools[j] \notin {"missing", "invalid"}
    ELSE 0

\* --------------------------------------------------------------- actions
\* The embedder calls session(clientId).complete(content).
Complete(e) ==
  /\ Fresh(e)
  /\ Cardinality({f \in ExecIds : ex[f].via = "complete"}) < MaxComplete
  /\ ex' = [ex EXCEPT ![e] = [NoExec EXCEPT !.via = "complete", !.cstat = "queued"]]
  /\ UNCHANGED <<strategy, activeAgent, navigationStack, history, agentQueue, cancels,
               aside>>

\* The queued complete call reaches ClientSession.execute.
SessionExecute(e) ==
  /\ ex[e].via = "complete" /\ ex[e].cstat = "queued"
  /\ CompleteTurn(e)
  /\ ex' = [ex EXCEPT ![e] = Submitted(@)]
  /\ agentQueue' = [agentQueue EXCEPT ![activeAgent] = Append(@, e)]
  /\ UNCHANGED <<strategy, activeAgent, navigationStack, history, cancels, aside>>

\* EXECUTE_FN starts: the user message is appended, the completion is called.
ExecuteBegin(e) ==
  /\ ex[e].pc = "queued"
  /\ AgentTurn(e)
  /\ ex' = [ex EXCEPT ![e].pc = "completion"]
  /\ history' = [history EXCEPT ![ex[e].agent] = Append(@, Msg("user", e, "incoming"))]
  /\ UNCHANGED <<strategy, activeAgent, navigationStack, agentQueue, cancels, aside>>

\* EXECUTE_FN that emits the answer before it validates it.
ExecuteTextEmitFirst(W, e, m, ph, r1, r2) ==
  LET a == W.ex[e].agent
      result == Transform(m.text)
      W1 == Publish(Push(W, a, Msg("assistant", e, m.text)), a, Str(result, e), e)
  IN IF Validate(result)
       THEN [w |-> W1, ok |-> TRUE]
       ELSE RescueEmit(W1, e, "invalid-output", ph, r1, r2)

\* EXECUTE_FN after the completion answered, for an answer without tool
\* calls: append it, validate, emit or rescue.
ExecuteText(W, e, m, ph, r1, r2) ==
  LET a == W.ex[e].agent
      result == Transform(m.text)
      W1 == Push(W, a, Msg("assistant", e, m.text))
  IN IF Validate(result)
       THEN [w |-> Publish(W1, a, Str(result, e), e), ok |-> TRUE]
       ELSE RescueEmit(W1, e, "invalid-output", ph, r1, r2)

\* EXECUTE_FN that throws on a failed lookup or validation instead of
\* rescuing.
ExecuteToolsThrows(W, e, m, ph, r1, r2) ==
  LET a == W.ex[e].agent
      tools == Truncate(m.tools)
      W1 == Push([W EXCEPT !.ex[e].tools = tools, !.ex[e].ncalls = Len(m.tools),
                           !.ex[e].body = [i \in 1..Len(tools) |-> "idle"]],
                 a, Msg("assistant", e, "tool_calls"))
  IN IF FirstBad(tools) = 0
       THEN [w |-> [W1 EXCEPT !.ex[e].cpc = "ready", !.ex[e].cidx = 1], ok |-> TRUE]
       ELSE [w |-> [W1 EXCEPT !.ex[e].cpc = "done", !.ex[e].last = "norun"],
             ok |-> FALSE]

\* EXECUTE_FN that looks a tool call up only when the chain reaches it: the
\* calls before the failing one have run by the time the lookup fails.
ExecuteToolsLazily(W, e, m, ph, r1, r2) ==
  LET a == W.ex[e].agent
      tools == Truncate(m.tools)
      k == FirstBad(tools)
      W1 == Push([W EXCEPT !.ex[e].tools = tools, !.ex[e].ncalls = Len(m.tools),
                           !.ex[e].body = [i \in 1..Len(tools) |->
                                             IF i < k THEN "ret" ELSE "idle"]],
                 a, Msg("assistant", e, "tool_calls"))
  IN IF k = 0
       THEN [w |-> [W1 EXCEPT !.ex[e].cpc = "ready", !.ex[e].cidx = 1], ok |-> TRUE]
       ELSE LET r == RescueEmit(W1, e, tools[k], ph, r1, r2)
            IN [w |-> [r.w EXCEPT !.ex[e].cpc = "done", !.ex[e].last = "norun"],
                ok |-> r.ok]

\* EXECUTE_FN after the completion answered with tool calls: append the
\* message, look up and validate every call; a failure is rescued and no
\* chain step runs (run(false)), otherwise the chain is released (run(true)).
ExecuteTools(W, e, m, ph, r1, r2) ==
  LET a == W.ex[e].agent
      tools == Truncate(m.tools)
      W1 == Push([W EXCEPT !.ex[e].tools = tools, !.ex[e].ncalls = Len(m.tools),
                           !.ex[e].body = [i \in 1..Len(tools) |-> "idle"]],
                 a, Msg("assistant", e, "tool_calls"))
  IN IF FirstBad(tools) = 0
       THEN [w |-> [W1 EXCEPT !.ex[e].cpc = "ready", !.ex[e].cidx = 1], ok |-> TRUE]
       ELSE LET r == RescueEmit(W1, e, tools[FirstBad(tools)], ph, r1, r2)
            IN [w |-> [r.w EXCEPT !.ex[e].cpc = "done", !.ex[e].last = "norun"],
                ok |-> r.ok]

ExecuteCompletion(e) ==
  /\ ex[e].pc = "completion"
  /\ \E d \in Draws, ph \in PhDraws, r1 \in RescueDraws, r2 \in RescueDraws :
       LET g == GetCompletion(World(ex, history), e, d)
           r == IF g.msg.tools = <<>>
                  THEN ExecuteText(g.w, e, g.msg, ph, r1, r2)
                  ELSE ExecuteTools(g.w, e, g.msg, ph, r1, r2)
       IN /\ ex' = [r.w.ex EXCEPT ![e].pc = IF r.ok THEN "done" ELSE "rejected"]
          /\ history' = r.w.hist
  /\ agentQueue' = [agentQueue EXCEPT ![ex[e].agent] = Tail(@)]
  /\ UNCHANGED <<strategy, activeAgent, navigationStack, cancels, aside>>

\* A chain that starts the bodies of all its remaining tool calls at once.
StartedAll(x) ==
  [x EXCEPT !.cpc = "await",
            !.body = [j \in DOMAIN x.body |->
                        IF j >= x.cidx /\ x.body[j] = "idle" THEN "run" ELSE x.body[j]]]

\* A chain step that starts the body of its tool call and has not subscribed
\* to the signals yet.
StartedUnsubscribed(x) == [x EXCEPT !.body[x.cidx] = "run"]

\* The chain of turn x subscribes to the five signals and starts the body of
\* the tool call it is at (createToolCall).
Started(x) == [x EXCEPT !.cpc = "await", !.body[x.cidx] = "run"]

\* A step of the dispatch chain: subscribe, start the tool body, wait for the
\* first signal.
ChainStart(e) ==
  /\ ex[e].cpc = "ready"
  /\ ex' = [ex EXCEPT ![e] = Started(@)]
  /\ UNCHANGED <<strategy, activeAgent, navigationStack, history, agentQueue, cancels,
               aside>>

\* Tool call i of turn e is of kind k and its body is at pc.
At(e, i, k, pc) ==
  /\ i \in 1..Len(ex[e].tools)
  /\ ex[e].tools[i] = k
  /\ ex[e].body[i] = pc

\* commitToolOutput that fires tool-commit and appends nothing to history.
ToolCommitSignalsOnly(e, i) ==
  /\ At(e, i, "commit", "run")
  /\ ex' = SignalChains(World([ex EXCEPT ![e].body[i] = "after"], history),
                        activeAgent, "commit").ex
  /\ UNCHANGED <<strategy, activeAgent, navigationStack, history, agentQueue, cancels,
                 aside>>

\* The tool body calls commitToolOutput: the active agent appends the tool
\* message and fires tool-commit; the body goes on.
ToolCommit(e, i) ==
  /\ At(e, i, "commit", "run")
  /\ LET W == SignalChains(Push(World([ex EXCEPT ![e].body[i] = "after"], history),
                                activeAgent, Msg("tool", e, "output")),
                           activeAgent, "commit")
     IN ex' = W.ex /\ history' = W.hist
  /\ UNCHANGED <<strategy, activeAgent, navigationStack, agentQueue, cancels, aside>>

\* The tool body throws: createToolCall fires tool-error on its own agent.
ToolThrow(e, i) ==
  /\ At(e, i, "throw", "run")
  /\ \E ph \in PhDraws, r1 \in RescueDraws, r2 \in RescueDraws :
       LET W == ErrorSignal(World([ex EXCEPT ![e].body[i] = "thrown"], history),
                            ex[e].agent, ph, r1, r2)
       IN ex' = W.ex /\ history' = W.hist
  /\ UNCHANGED <<strategy, activeAgent, navigationStack, agentQueue, cancels, aside>>

\* changeAgent that validates its arguments and returns without telling the
\* swarm.
ToolChangeAgentValidateOnly(e, i) ==
  /\ At(e, i, "nav", "run")
  /\ ex' = [ex EXCEPT ![e].body[i] = "nav2"]
  /\ UNCHANGED <<strategy, activeAgent, navigationStack, history, agentQueue, cancels,
               aside>>

\* The tool body calls changeAgent(to, clientId).
ToolChangeAgent(e, i) ==
  /\ At(e, i, "nav", "run")
  /\ SetAgentName(Other(ex[e].agent), [ex EXCEPT ![e].body[i] = "nav2"])
  /\ UNCHANGED <<strategy, history, agentQueue, cancels, aside>>

\* The tool body calls execute(content, clientId) and awaits it.
ToolExecute(e, i) ==
  /\ At(e, i, "nav", "nav2") \/ At(e, i, "exec", "run")
  /\ \E n \in ExecIds :
       /\ Fresh(n)
       /\ ex' = [ex EXCEPT ![e].body[i] = "wait",
                           ![n] = Submitted([NoExec EXCEPT !.via = "execute",
                                                           !.parent = e, !.pidx = i])]
       /\ agentQueue' = [agentQueue EXCEPT ![activeAgent] = Append(@, n)]
  /\ UNCHANGED <<strategy, activeAgent, navigationStack, history, cancels, aside>>

\* The execute call of the tool body returned; the body returns.
ToolResume(e, i) ==
  /\ i \in 1..Len(ex[e].tools) /\ ex[e].body[i] = "wait"
  /\ \E n \in ExecIds :
       ex[n].parent = e /\ ex[n].pidx = i /\ ex[n].cstat = "returned"
  /\ ex' = [ex EXCEPT ![e].body[i] = "ret"]
  /\ UNCHANGED <<strategy, activeAgent, navigationStack, history, agentQueue, cancels,
               aside>>

\* The tool body calls commitStopTools: the active agent fires tool-stop.
ToolStop(e, i) ==
  /\ At(e, i, "stop", "run")
  /\ LET W == SignalChains(World([ex EXCEPT ![e].body[i] = "ret"], history),
                           activeAgent, "stop")
     IN ex' = W.ex
  /\ UNCHANGED <<strategy, activeAgent, navigationStack, history, agentQueue, cancels,
               aside>>

\* The tool body returns: after its commit, or without committing anything.
ToolReturn(e, i) ==
  /\ At(e, i, "silent", "run") \/ At(e, i, "commit", "after")
  /\ ex' = [ex EXCEPT ![e].body[i] = "ret"]
  /\ UNCHANGED <<strategy, activeAgent, navigationStack, history, agentQueue, cancels,
               aside>>

\* The calls x after a cancelOutput for the active agent was issued: every
\* call that is in progress is marked with the state it was in.
Marked(x) ==
  [c \in ExecIds |->
     IF x[c].cstat \in {"queued", "waiting"}
       THEN [x[c] EXCEPT !.cancelled = x[c].cstat]
       ELSE x[c]]

\* cancelOutput without its guard: it cancels whichever agent is named.
CancelOutputUnguarded(agentName) ==
  /\ cancels < MaxCancel
  /\ cancels' = cancels + 1
  /\ ex' = CancelWaits(Marked(ex))
  /\ UNCHANGED <<strategy, activeAgent, navigationStack, history, agentQueue, aside>>

\* cancelOutput with its guard inverted: it returns when agentName is the
\* active agent.
CancelOutputInverted(agentName) ==
  /\ cancels < MaxCancel
  /\ cancels' = cancels + 1
  /\ ex' = IF activeAgent = agentName THEN Marked(ex) ELSE CancelWaits(ex)
  /\ UNCHANGED <<strategy, activeAgent, navigationStack, history, agentQueue, aside>>

\* The embedder calls cancelOutput(clientId, agentName): skipped unless
\* agentName is the active agent.
CancelOutput(agentName) ==
  /\ cancels < MaxCancel
  /\ cancels' = cancels + 1
  /\ ex' = IF activeAgent = agentName THEN CancelWaits(Marked(ex)) ELSE ex
  /\ UNCHANGED <<strategy, activeAgent, navigationStack, history, agentQueue, aside>>

\* The embedder calls cancelOutputForce(clientId): the swarm's cancelOutput,
\* whichever agent is active.
CancelOutputForce ==
  /\ cancels < MaxCancel
  /\ cancels' = cancels + 1
  /\ ex' = CancelWaits(Marked(ex))
  /\ UNCHANGED <<strategy, activeAgent, navigationStack, history, agentQueue, aside>>

\* ------------------------------------------------------- run and commit
\* ClientAgent.run not wrapped in queued: a call runs at once.
RunTurnUnqueued(r) == TRUE

\* ClientAgent.run is queued, on a queue of its own: a call runs once it is
\* the oldest of the agent's run queue.
RunTurn(r) ==
  runQueue[runs[r].agent] # <<>> /\ Head(runQueue[runs[r].agent]) = r

\* A caller invokes run(incoming) on the active agent.
RunCall(r) ==
  /\ runs[r].pc = "none" /\ \A q \in RunIds : q < r => runs[q].pc # "none"
  /\ runs' = [runs EXCEPT ![r] = [NoRun EXCEPT !.agent = activeAgent, !.pc = "queued"]]
  /\ runQueue' = [runQueue EXCEPT ![activeAgent] = Append(@, r)]
  /\ UNCHANGED <<strategy, activeAgent, navigationStack, history, agentQueue, ex,
                 cancels, commits, swarmSide>>

\* RUN_FN that appends the incoming message to the log, as EXECUTE_FN does.
RunBeginAppends(r) ==
  /\ runs[r].pc = "queued"
  /\ RunTurn(r)
  /\ runs' = [runs EXCEPT ![r].pc = "completion"]
  /\ history' = [history EXCEPT ![runs[r].agent] = Append(@, Msg("user", 0, "incoming"))]
  /\ UNCHANGED <<strategy, activeAgent, navigationStack, agentQueue, ex,
                 cancels, runQueue, commits, swarmSide>>

\* RUN_FN starts: it reads the agent's log and calls the completion.
RunBegin(r) ==
  /\ runs[r].pc = "queued"
  /\ RunTurn(r)
  /\ runs' = [runs EXCEPT ![r].pc = "completion"]
  /\ UNCHANGED <<strategy, activeAgent, navigationStack, history, agentQueue, ex,
                 cancels, runQueue, commits, swarmSide>>

\* RUN_FN after the completion answered: the transformed text, or the empty
\* string for tool calls and for a text that fails validation; nothing is
\* appended to the log.
RunEnd(r) ==
  /\ runs[r].pc = "completion"
  /\ \E o \in Outputs :
       runs' = [runs EXCEPT ![r].pc = "done",
                            ![r].result =
                               IF o.tools = <<>> /\ Validate(Transform(o.text))
                                 THEN Transform(o.text) ELSE ""]
  /\ runQueue' = [runQueue EXCEPT ![runs[r].agent] = Tail(@)]
  /\ UNCHANGED <<strategy, activeAgent, navigationStack, history, agentQueue, ex,
                 cancels, commits, swarmSide>>

\* The embedder calls commitSystemMessage: the active agent appends the
\* message.
CommitSystemMessage ==
  /\ commits < MaxCommit
  /\ commits' = commits + 1
  /\ history' = [history EXCEPT ![activeAgent] = Append(@, Msg("system", 0, "commit"))]
  /\ UNCHANGED <<strategy, activeAgent, navigationStack, agentQueue, ex, cancels,
                 runs, runQueue, swarmSide>>

\* The embedder calls commitFlush: ClientAgent.commitFlush appends a flush
\* marker to the log of the active agent.
CommitFlush ==
  /\ commits < MaxCommit
  /\ commits' = commits + 1
  /\ history' = [history EXCEPT ![activeAgent] = Append(@, Msg("flush", 0, ""))]
  /\ UNCHANGED <<strategy, activeAgent, navigationStack, agentQueue, ex, cancels,
                 runs, runQueue, swarmSide>>

\* ------------------------------------------------- the swarm controller
\* PersistSwarmUtils.getActiveAgent: the document stored under the client's
\* key, the default agent when there is none.
GetActiveAgent(store, clientId) ==
  IF store[clientId] # NoValue THEN store[clientId] ELSE DefaultAgent

\* A store that writes the document under every client's key.
SetActiveAgentAnyKey(store, clientId, agentName) == [c \in Clients |-> agentName]

\* PersistSwarmUtils.setActiveAgent: write the document under the client's key.
SetActiveAgent(store, clientId, agentName) == [store EXCEPT ![clientId] = agentName]

\* The last three operations on the active agent, op the latest.
Trailed(t, op) == LET u == Append(t, op) IN IF Len(u) > 3 THEN Tail(u) ELSE u

\* ClientSwarm.navigationPop: the popped agent, the default agent when the
\* stack is empty, and the stack that remains.
NavigationPop(stack) ==
  IF stack = <<>>
    THEN [agent |-> DefaultAgent, stack |-> <<>>]
    ELSE [agent |-> stack[Len(stack)], stack |-> SubSeq(stack, 1, Len(stack) - 1)]

\* setAgentName that switches the agent and does not call onAgentChanged.
SwarmSetAgentNameQuiet(name) ==
  /\ SetAgentName(name, ex)
  /\ activeAgentStorage' = SetActiveAgent(activeAgentStorage, Client, name)
  /\ agentChanged' = agentChanged
  /\ trail' = Trailed(trail, name)

\* ClientSwarm.setAgentName with its persistence and its callback: the
\* switch, the stored active agent, onAgentChanged.
SwarmSetAgentName(name) ==
  /\ SetAgentName(name, ex)
  /\ activeAgentStorage' = SetActiveAgent(activeAgentStorage, Client, name)
  /\ agentChanged' = agentChanged + 1
  /\ trail' = Trailed(trail, name)

\* The agents added with addAgent: the agents of the swarm's agentList and one
\* that no swarm of the client lists.
AgentRegistry == Agents \cup {"refund"}

\* The embedder calls changeAgent(agentName, clientId): the session and the
\* registration of the agent are validated, then the swarm switches.
ChangeAgent(name) ==
  /\ name \in AgentRegistry
  /\ changes < MaxChange
  /\ changes' = changes + 1
  /\ SwarmSetAgentName(name)
  /\ UNCHANGED <<strategy, history, agentQueue, cancels, runs, runQueue, commits, functionsSide,
                 nav, prevs, agentMemo, agentMap, instances, others>>

\* changeToPrevAgent: navigationPop pops the stack and makes the popped agent
\* (the default agent on an empty stack) the active one.
PrevPop ==
  /\ nav.pc = "idle"
  /\ prevs < MaxPrev
  /\ prevs' = prevs + 1
  /\ LET p == NavigationPop(navigationStack)
     IN /\ navigationStack' = p.stack
        /\ activeAgent' = p.agent
        /\ activeAgentStorage' = SetActiveAgent(activeAgentStorage, Client, p.agent)
        /\ nav' = [pc |-> "popped", target |-> p.agent, cur |-> DefaultAgent,
                   empty |-> navigationStack = <<>>]
  /\ trail' = Trailed(trail, "pop")
  /\ UNCHANGED <<strategy, history, agentQueue, ex, cancels, runs, runQueue, commits, functionsSide,
                 changes, agentMemo, agentMap, instances, agentChanged, others>>

\* createChangeToPrevAgent: commitAgentChange on every agent of the swarm.
PrevNotify ==
  /\ nav.pc = "popped"
  /\ nav' = [nav EXCEPT !.pc = "notified"]
  /\ LET W1 == SignalChains(World(ex, history), DefaultAgent, "agent-change")
         W2 == SignalChains(W1, Other(DefaultAgent), "agent-change")
     IN ex' = W2.ex
  /\ UNCHANGED <<strategy, activeAgent, navigationStack, history, agentQueue, cancels,
                 runs, runQueue, commits, functionsSide, prevs, changes, agentMemo, agentMap,
                 instances, agentChanged, trail, activeAgentStorage, others>>

\* createChangeToPrevAgent: getAgentName, then agentPublicService.dispose of
\* that agent, which clears its memo entry.
PrevDispose ==
  /\ nav.pc = "notified"
  /\ nav' = [nav EXCEPT !.pc = "disposed", !.cur = activeAgent]
  /\ agentMemo' = [agentMemo EXCEPT ![activeAgent] = 0]
  /\ UNCHANGED <<strategy, activeAgent, navigationStack, history, agentQueue, ex,
                 cancels, runs, runQueue, commits, functionsSide, prevs, changes, agentMap,
                 instances, agentChanged, trail, activeAgentStorage, others>>

\* A dispose that empties the log of the agent.
DisposeHistoryClears(h, a) == [h EXCEPT ![a] = <<>>]

\* ClientHistory.dispose of agent a: the ClientHistory of (clientId, a) is torn
\* down; the messages stay in the client's log.
DisposeHistory(h, a) == h

\* createChangeToPrevAgent: historyPublicService.dispose of that agent.
PrevHistoryDispose ==
  /\ nav.pc = "disposed"
  /\ nav' = [nav EXCEPT !.pc = "hdisposed"]
  /\ history' = DisposeHistory(history, nav.cur)
  /\ UNCHANGED <<strategy, activeAgent, navigationStack, agentQueue, ex, cancels,
                 runs, runQueue, commits, functionsSide, prevs, changes, agentMemo, agentMap,
                 instances, agentChanged, trail, activeAgentStorage, others>>

\* createChangeToPrevAgent that builds the new instance and does not register
\* it in the swarm.
PrevSetRefSkipped ==
  /\ nav.pc = "hdisposed"
  /\ nav' = [nav EXCEPT !.pc = "refset"]
  /\ agentMemo' = [agentMemo EXCEPT ![nav.cur] = IF @ = 0 THEN instances + 1 ELSE @]
  /\ instances' = IF agentMemo[nav.cur] = 0 THEN instances + 1 ELSE instances
  /\ UNCHANGED <<strategy, activeAgent, navigationStack, history, agentQueue, ex,
                 cancels, runs, runQueue, commits, functionsSide, prevs, changes, agentMap,
                 agentChanged, trail, activeAgentStorage, others>>

\* createChangeToPrevAgent: createAgentRef gets the agent from the memoized
\* factory, which constructs an instance when the entry is missing, and
\* setAgentRef registers it in the swarm.
PrevSetRef ==
  /\ nav.pc = "hdisposed"
  /\ nav' = [nav EXCEPT !.pc = "refset"]
  /\ LET ref == IF agentMemo[nav.cur] = 0 THEN instances + 1 ELSE agentMemo[nav.cur]
     IN /\ agentMemo' = [agentMemo EXCEPT ![nav.cur] = ref]
        /\ agentMap' = [agentMap EXCEPT ![nav.cur] = ref]
        /\ instances' = IF agentMemo[nav.cur] = 0 THEN instances + 1 ELSE instances
  /\ UNCHANGED <<strategy, activeAgent, navigationStack, history, agentQueue, ex,
                 cancels, runs, runQueue, commits, functionsSide, prevs, changes, agentChanged,
                 trail, activeAgentStorage, others>>

\* createChangeToPrevAgent: setAgentName of the agent navigationPop returned.
PrevSetName ==
  /\ nav.pc = "refset"
  /\ nav' = NoNav
  /\ SwarmSetAgentName(nav.target)
  /\ UNCHANGED <<strategy, history, agentQueue, cancels, runs, runQueue, commits, functionsSide,
                 prevs, changes, agentMemo, agentMap, instances, others>>

\* A facade call on agent a reaches AgentConnection.getAgent while the memo
\* has no entry for (clientId, a): the factory constructs an instance.
GetAgent(a) ==
  /\ agentMemo[a] = 0
  /\ agentMemo' = [agentMemo EXCEPT ![a] = instances + 1]
  /\ instances' = instances + 1
  /\ UNCHANGED <<strategy, activeAgent, navigationStack, history, agentQueue, ex,
                 cancels, runs, runQueue, commits, functionsSide, nav, prevs, changes, agentMap,
                 agentChanged, trail, activeAgentStorage, others>>

\* Another client of the swarm changes its active agent.
OtherClientChange(name) ==
  /\ others < MaxOther
  /\ others' = others + 1
  /\ activeAgentStorage' = SetActiveAgent(activeAgentStorage, OtherClient, name)
  /\ UNCHANGED <<strategy, activeAgent, navigationStack, history, agentQueue, ex,
                 cancels, runs, runQueue, commits, functionsSide, nav, prevs, changes, agentMemo,
                 agentMap, instances, agentChanged, trail>>

\* The indices of the tool calls of a turn.
ToolIdx == 1..MaxToolCalls

\* The steps of the program itself: the embedder submits messages and never
\* cancels.
Turns ==
  \/ \E e \in ExecIds : Complete(e)
  \/ \E e \in ExecIds : SessionExecute(e)
  \/ \E e \in ExecIds : ExecuteBegin(e)
  \/ \E e \in ExecIds : ExecuteCompletion(e)
  \/ \E e \in ExecIds : ChainStart(e)
  \/ \E e \in ExecIds, i \in ToolIdx : ToolCommit(e, i)
  \/ \E e \in ExecIds, i \in ToolIdx : ToolThrow(e, i)
  \/ \E e \in ExecIds, i \in ToolIdx : ToolChangeAgent(e, i)
  \/ \E e \in ExecIds, i \in ToolIdx : ToolExecute(e, i)
  \/ \E e \in ExecIds, i \in ToolIdx : ToolResume(e, i)
  \/ \E e \in ExecIds, i \in ToolIdx : ToolStop(e, i)
  \/ \E e \in ExecIds, i \in ToolIdx : ToolReturn(e, i)

Next ==
  \/ Turns
  \/ \E a \in Agents : CancelOutput(a)

Spec == Init /\ [][Next]_vars

\* The client whose agents are also called through run and whose embedder
\* commits system messages; its tools commit their output and return.
NextLinear ==
  \/ \E e \in ExecIds : Complete(e)
  \/ \E e \in ExecIds : SessionExecute(e)
  \/ \E e \in ExecIds : ExecuteBegin(e)
  \/ \E e \in ExecIds : ExecuteCompletion(e)
  \/ \E e \in ExecIds : ChainStart(e)
  \/ \E e \in ExecIds, i \in ToolIdx : ToolCommit(e, i)
  \/ \E e \in ExecIds, i \in ToolIdx : ToolReturn(e, i)
  \/ \E r \in RunIds : RunCall(r)
  \/ \E r \in RunIds : RunBegin(r)
  \/ \E r \in RunIds : RunEnd(r)
  \/ CommitSystemMessage

SpecLinear == Init /\ [][NextLinear]_vars

\* The steps of changeToPrevAgent.
PrevAgent ==
  \/ PrevPop
  \/ PrevNotify
  \/ PrevDispose
  \/ PrevHistoryDispose
  \/ PrevSetRef
  \/ PrevSetName

\* The client whose embedder submits messages, calls run, commits, flushes
\* and navigates back, and whose tools commit their output and return.
NextHistory ==
  \/ \E e \in 1..MaxHistoryExec : Complete(e)
  \/ \E e \in 1..MaxHistoryExec : SessionExecute(e)
  \/ \E e \in 1..MaxHistoryExec : ExecuteBegin(e)
  \/ \E e \in 1..MaxHistoryExec : ExecuteCompletion(e)
  \/ \E e \in 1..MaxHistoryExec : ChainStart(e)
  \/ \E e \in 1..MaxHistoryExec, i \in ToolIdx : ToolCommit(e, i)
  \/ \E e \in 1..MaxHistoryExec, i \in ToolIdx : ToolReturn(e, i)
  \/ \E r \in RunIds : RunCall(r)
  \/ \E r \in RunIds : RunBegin(r)
  \/ \E r \in RunIds : RunEnd(r)
  \/ CommitSystemMessage
  \/ CommitFlush
  \/ PrevAgent

SpecHistory == Init /\ [][NextHistory]_vars

\* The client whose embedder changes the agent, commits and cancels while a
\* turn answers, next to another client of the same swarm.
NextSwarm ==
  \/ \E e \in 1..MaxSwarmExec : Complete(e)
  \/ \E e \in 1..MaxSwarmExec : SessionExecute(e)
  \/ \E e \in 1..MaxSwarmExec : ExecuteBegin(e)
  \/ \E e \in 1..MaxSwarmExec : ExecuteCompletion(e)
  \/ CommitSystemMessage
  \/ \E a \in Agents : CancelOutput(a)
  \/ \E a \in Agents : ChangeAgent(a)
  \/ \E a \in Agents : OtherClientChange(a)

SpecSwarm == Init /\ [][NextSwarm]_vars

\* The client whose embedder changes the agent and navigates back while a
\* turn answers and facade calls reach the agents.
NextNavigate ==
  \/ \E e \in 1..MaxSwarmExec : Complete(e)
  \/ \E e \in 1..MaxSwarmExec : SessionExecute(e)
  \/ \E e \in 1..MaxSwarmExec : ExecuteBegin(e)
  \/ \E e \in 1..MaxSwarmExec : ExecuteCompletion(e)
  \/ \E a \in Agents : ChangeAgent(a)
  \/ PrevAgent
  \/ \E a \in Agents : GetAgent(a)

SpecNavigate == Init /\ [][NextNavigate]_vars

\* The embedder that changes the agent to any registered one, next to another
\* client of the same swarm.
NextMembership ==
  \/ \E a \in AgentRegistry : ChangeAgent(a)
  \/ \E a \in Agents : OtherClientChange(a)

SpecMembership == Init /\ [][NextMembership]_vars

\* The client of one turn, under any rescue strategy; its tools commit their
\* output, throw or return.
NextStrategy ==
  \/ \E e \in 1..MaxStrategyExec : Complete(e)
  \/ \E e \in 1..MaxStrategyExec : SessionExecute(e)
  \/ \E e \in 1..MaxStrategyExec : ExecuteBegin(e)
  \/ \E e \in 1..MaxStrategyExec : ExecuteCompletion(e)
  \/ \E e \in 1..MaxStrategyExec : ChainStart(e)
  \/ \E e \in 1..MaxStrategyExec, i \in ToolIdx : ToolCommit(e, i)
  \/ \E e \in 1..MaxStrategyExec, i \in ToolIdx : ToolThrow(e, i)
  \/ \E e \in 1..MaxStrategyExec, i \in ToolIdx : ToolReturn(e, i)

SpecStrategy == InitStrategy /\ [][NextStrategy]_vars

\* The client of two turns whose embedder cancels the output, with and
\* without naming an agent.
NextCancel ==
  \/ \E e \in 1..MaxCancelExec : Complete(e)
  \/ \E e \in 1..MaxCancelExec : SessionExecute(e)
  \/ \E e \in 1..MaxCancelExec : ExecuteBegin(e)
  \/ \E e \in 1..MaxCancelExec : ExecuteCompletion(e)
  \/ \E e \in 1..MaxCancelExec : ChainStart(e)
  \/ \E e \in 1..MaxCancelExec, i \in ToolIdx : ToolCommit(e, i)
  \/ \E e \in 1..MaxCancelExec, i \in ToolIdx : ToolThrow(e, i)
  \/ \E e \in 1..MaxCancelExec, i \in ToolIdx : ToolStop(e, i)
  \/ \E e \in 1..MaxCancelExec, i \in ToolIdx : ToolReturn(e, i)
  \/ CancelOutputForce
  \/ \E a \in Agents : CancelOutput(a)

SpecCancel == Init /\ [][NextCancel]_vars

\* ------------------------------------------------------- the tool watchdog
\* The watchdog that treats its expiry as a tool-stop of the agent.
ToolNoOutputWarningStops(e) ==
  /\ ex[e].cpc = "await"
  /\ <<e, ex[e].cidx>> \notin toolWarnings
  /\ toolWarnings' = toolWarnings \cup {<<e, ex[e].cidx>>}
  /\ ex' = SignalChains(World(ex, history), ex[e].agent, "stop").ex
  /\ UNCHANGED <<strategy, activeAgent, navigationStack, history, agentQueue, cancels,
                 runs, runQueue, commits, nav, prevs, changes, agentMemo, agentMap,
                 instances, agentChanged, trail, activeAgentStorage, others,
                 autoDispose, outputList, storage,
                 persistList>>

\* TOOL_NO_OUTPUT_WARNING_TIMEOUT passes while the chain of turn e still waits
\* for the first signal of the tool call it started: a warning is printed.
ToolNoOutputWarning(e) ==
  /\ ex[e].cpc = "await"
  /\ <<e, ex[e].cidx>> \notin toolWarnings
  /\ toolWarnings' = toolWarnings \cup {<<e, ex[e].cidx>>}
  /\ UNCHANGED <<strategy, activeAgent, navigationStack, history, agentQueue, ex,
                 cancels, runs, runQueue, commits, nav, prevs, changes, agentMemo,
                 agentMap, instances, agentChanged, trail, activeAgentStorage,
                 others, autoDispose, outputList, storage,
                 persistList>>

\* The client of one turn whose tools may take longer than the watchdog; they
\* commit their output, throw, stop the chain or return.
NextWatchdog ==
  \/ \E e \in 1..MaxWatchdogExec : Complete(e)
  \/ \E e \in 1..MaxWatchdogExec : SessionExecute(e)
  \/ \E e \in 1..MaxWatchdogExec : ExecuteBegin(e)
  \/ \E e \in 1..MaxWatchdogExec : ExecuteCompletion(e)
  \/ \E e \in 1..MaxWatchdogExec : ChainStart(e)
  \/ \E e \in 1..MaxWatchdogExec : ToolNoOutputWarning(e)
  \/ \E e \in 1..MaxWatchdogExec, i \in ToolIdx : ToolCommit(e, i)
  \/ \E e \in 1..MaxWatchdogExec, i \in ToolIdx : ToolThrow(e, i)
  \/ \E e \in 1..MaxWatchdogExec, i \in ToolIdx : ToolStop(e, i)
  \/ \E e \in 1..MaxWatchdogExec, i \in ToolIdx : ToolReturn(e, i)

SpecWatchdog == Init /\ [][NextWatchdog]_vars

\* A tool body that was started goes on to its commit, its stop, its throw
\* and its return.
WatchdogFairness ==
  WF_vars(\E e \in 1..MaxWatchdogExec, i \in ToolIdx :
            ToolCommit(e, i) \/ ToolThrow(e, i) \/ ToolStop(e, i) \/ ToolReturn(e, i))

FairSpecWatchdog == Init /\ [][NextWatchdog]_vars /\ WatchdogFairness

\* ------------------------------------------------------------- makeConnection
\* The state of the session and the swarm without the connector's messages.
connectionSide == <<strategy, activeAgent, navigationStack, history, cancels, runs,
                    runQueue, commits, nav, prevs, changes, agentMemo, agentMap,
                    instances, agentChanged, trail, activeAgentStorage, others,
                    autoDispose, toolWarnings,
                 storage,
                 persistList>>

\* The send function is queued: a call runs once the earlier ones have
\* settled, their connector call included.
SendTurn(e) ==
  \A f \in ExecIds :
    (f < e /\ ex[f].via = "send") => ex[f].cstat \in {"delivered", "rejected"}

\* The embedder calls the send function returned by makeConnection.
Send(e) ==
  /\ Fresh(e)
  /\ Cardinality({f \in ExecIds : ex[f].via = "send"}) < MaxSend
  /\ ex' = [ex EXCEPT ![e] = [NoExec EXCEPT !.via = "send", !.cstat = "queued"]]
  /\ UNCHANGED <<agentQueue, outputList, connectionSide>>

\* The callback returned by ClientSession.connect starts: this.execute.
Receive(e) ==
  /\ ex[e].via = "send" /\ ex[e].cstat = "queued"
  /\ SendTurn(e)
  /\ ex' = [ex EXCEPT ![e] = Submitted(@)]
  /\ agentQueue' = [agentQueue EXCEPT ![activeAgent] = Append(@, e)]
  /\ UNCHANGED <<outputList, connectionSide>>

\* The callback returned by ClientSession.connect, once this.execute has
\* resolved: the connector is called with the output and the active agent.
Connector(e) ==
  /\ ex[e].via = "send" /\ ex[e].cstat = "returned"
  /\ ex' = [ex EXCEPT ![e].cstat = "delivered"]
  /\ outputList' = Append(outputList, [data |-> ex[e].result, agentName |-> activeAgent])
  /\ UNCHANGED <<agentQueue, connectionSide>>

\* The embedder calls execute(message, clientId): ClientSession.execute,
\* outside the queue of the send function.
FacadeExecute(e) ==
  /\ Fresh(e)
  /\ Cardinality({f \in ExecIds : ex[f].via = "execute"}) < MaxFacade
  /\ ex' = [ex EXCEPT ![e] = Submitted([NoExec EXCEPT !.via = "execute"])]
  /\ agentQueue' = [agentQueue EXCEPT ![activeAgent] = Append(@, e)]
  /\ UNCHANGED <<outputList, connectionSide>>

\* The client connected through makeConnection whose embedder also calls
\* execute; its tools commit their output and return.
\* The calls of a client that sends and executes.
ConnectionIds == 1..(MaxSend + MaxFacade)

NextConnection ==
  \/ \E e \in ConnectionIds : Send(e)
  \/ \E e \in ConnectionIds : Receive(e)
  \/ \E e \in ConnectionIds : Connector(e)
  \/ \E e \in ConnectionIds : FacadeExecute(e)
  \/ \E e \in ConnectionIds : ExecuteBegin(e)
  \/ \E e \in ConnectionIds : ExecuteCompletion(e)
  \/ \E e \in ConnectionIds : ChainStart(e)
  \/ \E e \in ConnectionIds, i \in ToolIdx : ToolCommit(e, i)
  \/ \E e \in ConnectionIds, i \in ToolIdx : ToolReturn(e, i)

SpecConnection == Init /\ [][NextConnection]_vars

\* ------------------------------------------------------------ makeAutoDispose
\* The state that makeAutoDispose leaves alone.
sessionSide == <<strategy, activeAgent, navigationStack, history, agentQueue, ex,
                 cancels, runs, runQueue, commits, nav, prevs, changes, agentMemo,
                 agentMap, instances, agentChanged, trail, activeAgentStorage,
                 others, outputList, toolWarnings,
                 storage,
                 persistList>>

\* One emission of Source.join([stateEmitter, fromInterval]) through the chain
\* reduce / filter / once.  The join emits the pair of the latest values once
\* both sources have a value; the reducer adds one when the first of the pair
\* is truthy and falls back to zero otherwise; the first count that reaches
\* timeoutSeconds unsubscribes and disposes the session's connection.
JoinEmit(a) ==
  IF ~(a.subscribed /\ a.isOk /\ a.interval)
  THEN a
  ELSE LET ticker == IF a.isOk THEN a.ticker + 1 ELSE 0
       IN  IF ticker >= TimeoutSeconds
           THEN [a EXCEPT !.ticker = ticker, !.subscribed = FALSE, !.disposed = TRUE]
           ELSE [a EXCEPT !.ticker = ticker]

\* tick() of the handle: stateEmitter.next(true).
AutoTick ==
  /\ autoDispose.ticks < MaxTicks
  /\ autoDispose' =
       JoinEmit([autoDispose EXCEPT !.isOk = @ \/ autoDispose.subscribed,
                                    !.idle = 0, !.ticks = @ + 1])
  /\ UNCHANGED sessionSide

\* A second of wall clock passes: Source.fromInterval(1_000) emits if the
\* subscription is still there.
AutoSecond ==
  /\ autoDispose.seconds < MaxSeconds
  /\ autoDispose' =
       JoinEmit([autoDispose EXCEPT !.interval = @ \/ autoDispose.subscribed,
                                    !.idle = @ + 1, !.seconds = @ + 1])
  /\ UNCHANGED sessionSide

\* stop() of the handle: unSource().
AutoStop ==
  /\ autoDispose.subscribed
  /\ autoDispose' = [autoDispose EXCEPT !.subscribed = FALSE]
  /\ UNCHANGED sessionSide

\* The embedder that holds the handle of makeAutoDispose, and the clock.
NextAutoDispose ==
  \/ AutoTick
  \/ AutoSecond
  \/ AutoStop

SpecAutoDispose == Init /\ [][NextAutoDispose]_vars

\* -------------------------------------------------------------- PersistList
\* The state that a list leaves alone.
listRest == <<strategy, activeAgent, navigationStack, history, agentQueue, ex,
              cancels, runs, runQueue, commits, nav, prevs, changes, agentMemo,
              agentMap, instances, agentChanged, trail, activeAgentStorage,
              others, autoDispose, outputList, toolWarnings, storage>>

\* The directories a list can be built over.
ListStarts ==
  {[NoList EXCEPT !.files = [k \in ListKeys |->
                               IF k \in K THEN OldItem(k) ELSE NoItem]] :
     K \in SUBSET (1..MaxOld)}

\* A PersistList built over a directory that an earlier process may have left
\* files in.
InitList ==
  /\ strategy = "flush"
  /\ activeAgent = DefaultAgent
  /\ navigationStack = <<>>
  /\ history = [a \in Agents |-> <<>>]
  /\ agentQueue = [a \in Agents |-> <<>>]
  /\ ex = [e \in ExecIds |-> NoExec]
  /\ cancels = 0
  /\ runs = [r \in RunIds |-> NoRun]
  /\ runQueue = [a \in Agents |-> <<>>]
  /\ commits = 0
  /\ nav = NoNav
  /\ prevs = 0
  /\ changes = 0
  /\ agentMemo = [a \in Agents |-> FirstInstance(a)]
  /\ agentMap = [a \in Agents |-> FirstInstance(a)]
  /\ instances = Cardinality(Agents)
  /\ agentChanged = 0
  /\ trail = <<>>
  /\ activeAgentStorage = [c \in Clients |-> NoValue]
  /\ others = 0
  /\ autoDispose = NoAutoDispose
  /\ outputList = <<>>
  /\ toolWarnings = {}
  /\ storage = NoStorage
  /\ persistList \in ListStarts

\* The keys keys() yields: the files of the directory.
StoredKeys(files) == {k \in ListKeys : files[k] # NoItem}

\* The highest numeric key of the directory, 0 when it has none.
MaxKeyOf(files) ==
  IF StoredKeys(files) = {} THEN 0
  ELSE CHOOSE k \in StoredKeys(files) : \A j \in StoredKeys(files) : j <= k

\* The loop of LIST_CREATE_KEY_FN over keys(), and the null check after it.
ScannedCount(l) ==
  IF MaxKeyOf(l.files) = 0
    THEN (IF l.lastCount = Null THEN 0 ELSE l.lastCount)
    ELSE (IF l.lastCount = Null \/ l.lastCount < MaxKeyOf(l.files)
            THEN MaxKeyOf(l.files) ELSE l.lastCount)

\* A key made from the directory at every call.
NextKeyFromFiles(l) == MaxKeyOf(l.files) + 1

\* self._lastCount += 1
NextKey(l) == l.lastCount + 1

\* LIST_POP_SYMBOL not wrapped in queued: a pop runs at once.
PopTurnUnqueued(q) == TRUE

\* LIST_POP_SYMBOL is queued: a pop runs once the earlier ones have settled.
PopTurn(q) ==
  \A j \in Pops : j < q => persistList.pops[j].pc \in {"done", "failed"}

\* LIST_CREATE_KEY_SYMBOL is queued: a key is made once the earlier calls
\* have their keys.
CreateKeyTurn(p) ==
  \A j \in Pushes : j < p => persistList.pushes[j].pc \in {"write", "done"}

\* A caller calls push: the call enters the queue of LIST_CREATE_KEY_SYMBOL.
ListPush(p) ==
  /\ persistList.pushes[p].pc = "none"
  /\ \A j \in Pushes : j < p => persistList.pushes[j].pc # "none"
  /\ persistList' = [persistList EXCEPT !.pushes[p].pc = "queued"]
  /\ UNCHANGED listRest

\* LIST_CREATE_KEY_FN starts: with a last count it returns the next key, with
\* none it awaits keys().
ListCreateKey(p) ==
  /\ persistList.pushes[p].pc = "queued"
  /\ CreateKeyTurn(p)
  /\ persistList' =
       IF persistList.lastCount = Null
         THEN [persistList EXCEPT !.pushes[p].pc = "scan"]
         ELSE [persistList EXCEPT !.lastCount = NextKey(persistList),
                                  !.pushes[p] = [pc |-> "write",
                                                 key |-> NextKey(persistList)]]
  /\ UNCHANGED listRest

\* keys() has read the directory: the last count is set from its keys and
\* the next key is returned.
ListScanned(p) ==
  /\ persistList.pushes[p].pc = "scan"
  /\ LET l == [persistList EXCEPT !.lastCount = ScannedCount(persistList)]
     IN persistList' = [l EXCEPT !.lastCount = NextKey(l),
                                 !.pushes[p] = [pc |-> "write", key |-> NextKey(l)]]
  /\ UNCHANGED listRest

\* writeValue has written the file of the key.
ListWritten(p) ==
  /\ persistList.pushes[p].pc = "write"
  /\ persistList' = [persistList EXCEPT
                       !.files[persistList.pushes[p].key] = NewItem(p),
                       !.pushes[p].pc = "done"]
  /\ UNCHANGED listRest

\* A caller calls pop: the call enters the queue of LIST_POP_SYMBOL.
ListPop(q) ==
  /\ persistList.pops[q].pc = "none"
  /\ \A j \in Pops : j < q => persistList.pops[j].pc # "none"
  /\ persistList' = [persistList EXCEPT !.pops[q].pc = "queued"]
  /\ UNCHANGED listRest

\* LIST_POP_FN starts and awaits LIST_GET_LAST_KEY_FN.
ListPopBegin(q) ==
  /\ persistList.pops[q].pc = "queued"
  /\ PopTurn(q)
  /\ persistList' = [persistList EXCEPT !.pops[q].pc = "lastkey"]
  /\ UNCHANGED listRest

\* LIST_GET_LAST_KEY_FN has read the directory: null, and the pop returns
\* null, or the highest key, and the pop awaits readValue.
ListPopLastKey(q) ==
  /\ persistList.pops[q].pc = "lastkey"
  /\ persistList' =
       IF MaxKeyOf(persistList.files) = 0
         THEN [persistList EXCEPT !.pops[q].pc = "done"]
         ELSE [persistList EXCEPT !.pops[q].pc = "read",
                                  !.pops[q].key = MaxKeyOf(persistList.files)]
  /\ UNCHANGED listRest

\* readValue has read the file of the key, or has thrown as it is not there.
ListPopRead(q) ==
  /\ persistList.pops[q].pc = "read"
  /\ persistList' =
       IF persistList.files[persistList.pops[q].key] = NoItem
         THEN [persistList EXCEPT !.pops[q].pc = "failed"]
         ELSE [persistList EXCEPT
                 !.pops[q].pc = "remove",
                 !.pops[q].result = persistList.files[persistList.pops[q].key]]
  /\ UNCHANGED listRest

\* removeValue has unlinked the file, or has thrown as it is not there; the
\* pop returns the value it read.
ListPopRemoved(q) ==
  /\ persistList.pops[q].pc = "remove"
  /\ persistList' =
       IF persistList.files[persistList.pops[q].key] = NoItem
         THEN [persistList EXCEPT !.pops[q].pc = "failed",
                                  !.pops[q].result = NoItem]
         ELSE [persistList EXCEPT
                 !.files[persistList.pops[q].key] = NoItem,
                 !.pops[q].pc = "done",
                 !.pops[q].counted = (persistList.lastCount # Null)]
  /\ UNCHANGED listRest

\* The callers of a list.
NextList ==
  \/ \E p \in Pushes : ListPush(p)
  \/ \E p \in Pushes : ListCreateKey(p)
  \/ \E p \in Pushes : ListScanned(p)
  \/ \E p \in Pushes : ListWritten(p)
  \/ \E q \in Pops : ListPop(q)
  \/ \E q \in Pops : ListPopBegin(q)
  \/ \E q \in Pops : ListPopLastKey(q)
  \/ \E q \in Pops : ListPopRead(q)
  \/ \E q \in Pops : ListPopRemoved(q)

SpecList == InitList /\ [][NextList]_vars

\* -------------------------------------------------------------- ClientStorage
\* The state that a storage leaves alone.
storageRest == <<strategy, activeAgent, navigationStack, history, agentQueue, ex,
                 cancels, runs, runQueue, commits, nav, prevs, changes, agentMemo,
                 agentMap, instances, agentChanged, trail, activeAgentStorage,
                 others, autoDispose, outputList, toolWarnings,
                 persistList>>

\* What UPSERT_FN, REMOVE_FN and CLEAR_FN do to the item map.
Mutate(items, op) ==
  IF op.kind = "clear" THEN EmptyItems
  ELSE IF op.kind = "remove" THEN [items EXCEPT ![op.id] = NoValue]
  ELSE [items EXCEPT ![op.id] = op.value]

\* dispatch not wrapped in queued: a call runs at once.
StorageTurnUnqueued(k) == TRUE

\* dispatch is queued: a call runs once the earlier ones have settled.
StorageTurn(k) == \A j \in StorageCalls : j < k => storage.calls[j].pc = "done"

\* A caller calls upsert, remove or clear: the call enters the dispatch queue.
StorageDispatch(k, op) ==
  /\ storage.calls[k].pc = "none"
  /\ \A j \in StorageCalls : j < k => storage.calls[j].pc # "none"
  /\ storage' = [storage EXCEPT !.calls[k] = [op |-> op, pc |-> "queued",
                                              data |-> EmptyItems]]
  /\ UNCHANGED storageRest

\* DISPATCH_FN starts: the item map is changed; REMOVE_FN and CLEAR_FN take
\* their data and call setData at once, UPSERT_FN first awaits the embedding.
StorageBegin(k) ==
  /\ storage.calls[k].pc = "queued"
  /\ StorageTurn(k)
  /\ LET items == Mutate(storage.itemMap, storage.calls[k].op)
     IN storage' =
          IF storage.calls[k].op.kind = "upsert"
            THEN [storage EXCEPT !.itemMap = items, !.calls[k].pc = "embedding"]
            ELSE [storage EXCEPT !.itemMap = items, !.calls[k].pc = "persist",
                                 !.calls[k].data = items]
  /\ UNCHANGED storageRest

\* UPSERT_FN after _createEmbedding: it takes the values of the item map as
\* they are now and calls setData.
StorageEmbedded(k) ==
  /\ storage.calls[k].pc = "embedding"
  /\ storage' = [storage EXCEPT !.calls[k].pc = "persist",
                                !.calls[k].data = storage.itemMap]
  /\ UNCHANGED storageRest

\* setData has returned: onUpdate, the bus event, and the call settles.
StorageEnd(k) ==
  /\ storage.calls[k].pc = "persist"
  /\ storage' = [storage EXCEPT !.calls[k].pc = "done"]
  /\ UNCHANGED storageRest

\* waitForInit is called for the first time: WAIT_FOR_INIT_FN awaits getData.
WaitForInitCall ==
  /\ storage.init = "none"
  /\ storage' = [storage EXCEPT !.init = "loading"]
  /\ UNCHANGED storageRest

\* getData and the embeddings are there: WAIT_FOR_INIT_FN replaces the item
\* map by a new one made of the loaded data.
WaitForInitDone ==
  /\ storage.init = "loading"
  /\ storage' = [storage EXCEPT !.init = "done", !.itemMap = InitialData]
  /\ UNCHANGED storageRest

\* The callers of a storage that has no getData.
NextStorage ==
  \/ \E k \in StorageCalls, op \in StorageOps : StorageDispatch(k, op)
  \/ \E k \in StorageCalls : StorageBegin(k)
  \/ \E k \in StorageCalls : StorageEmbedded(k)
  \/ \E k \in StorageCalls : StorageEnd(k)

SpecStorage == Init /\ [][NextStorage]_vars

\* The callers of a storage whose waitForInit loads data.
NextStorageInit ==
  \/ \E k \in StorageCalls, op \in StorageOps : StorageDispatch(k, op)
  \/ \E k \in StorageCalls : StorageBegin(k)
  \/ \E k \in StorageCalls : StorageEmbedded(k)
  \/ \E k \in StorageCalls : StorageEnd(k)
  \/ WaitForInitCall
  \/ WaitForInitDone

SpecStorageInit == Init /\ [][NextStorageInit]_vars

\* The event loop runs every continuation that is ready, and the completion
\* back-end answers every request: a queued EXECUTE_FN that may start does
\* start, and one that waits for its completion gets it.
Fairness ==
  \A e \in ExecIds : WF_vars(ExecuteBegin(e)) /\ WF_vars(ExecuteCompletion(e))

\* The client whose embedder never calls cancelOutput, under that fairness.
FairSpec == Init /\ [][Turns]_vars /\ Fairness

\* ------------------------------------------------------------ properties
\* EXECUTE_FN of turn e has returned and no tool call of it is still to run.
Ended(e) == ex[e].pc \in {"done", "rejected"} /\ ex[e].cpc \in {"none", "done", "failed"}

\* Turn e answered with tool calls.
ToolTurn(e) == ex[e].tools # <<>>

\* The body of tool call i of turn e has started and has not returned.
Running(e, i) == ex[e].body[i] \in {"run", "after", "nav2", "wait"}

\* The dispatch chain of turn e has observed a signal for its tool call i.
Superseded(e, i) == ex[e].cidx > i \/ ex[e].cpc \in {"done", "failed"}

\* C1 (as stated): every execute that completes successfully has published
\* exactly one value, turns with tool calls included, and every execute that
\* fails fatally has published none.
C1_OneOutputPerExecute ==
  \A e \in ExecIds :
    /\ (Ended(e) /\ ex[e].pc = "done" /\ ~ex[e].fatal) => ex[e].outs = 1
    /\ (Ended(e) /\ ex[e].fatal) => ex[e].outs = 0

\* C1 (amended): an execute whose completion has no tool calls publishes
\* exactly one value when it completes and none when it fails fatally; an
\* execute with tool calls publishes at most one: one when a call fails
\* lookup or validation or a thrown tool body is rescued, none when its tool
\* calls end by a commit, stop or rescue signal, and none when the rescue
\* fails.
C1_OutputPerTurn ==
  \A e \in ExecIds :
    /\ ex[e].outs <= 1
    /\ (ex[e].pc = "done" /\ ~ToolTurn(e)) => ex[e].outs = 1
    /\ ex[e].fatal => ex[e].outs = 0
    /\ (ToolTurn(e) /\ ex[e].cpc = "done" /\ ex[e].last \in {"norun", "error"}
          /\ ~ex[e].fatal) => ex[e].outs = 1
    /\ (ToolTurn(e) /\ ex[e].last \in {"null", "commit", "stop", "rescue"})
          => ex[e].outs = 0

\* Two turns have ended, a rescued text answer with one output and a tool
\* turn whose calls were all committed with none.
C1_Witness ==
  \E e, f \in ExecIds :
    /\ ex[e].pc = "done" /\ ~ToolTurn(e) /\ ex[e].resc > 0 /\ ex[e].outs = 1
    /\ ToolTurn(f) /\ ex[f].cpc = "done" /\ ex[f].last = "commit" /\ ex[f].outs = 0

\* The position of the user message of turn e in the log of agent a, 0 if it
\* is not there.
UserAt(a, e) ==
  IF \E i \in 1..Len(history[a]) : history[a][i] = Msg("user", e, "incoming")
    THEN CHOOSE i \in 1..Len(history[a]) : history[a][i] = Msg("user", e, "incoming")
    ELSE 0

TurnRunning(e) ==
  \/ ex[e].pc = "completion"
  \/ \E i \in 1..Len(ex[e].tools) : Running(e, i)

Rescued(e) == ex[e].resc > 0 /\ ex[e].last \in {"null", "norun", "error"}

\* C4 (as stated): on every rescue path out of execute exactly one output is
\* emitted, and no tool call after the rescuing one is dispatched.
C4_RescueEmitsOne ==
  \A e \in ExecIds :
    (Rescued(e) /\ Ended(e)) =>
      /\ ex[e].outs = 1
      /\ \A j \in 1..Len(ex[e].tools) : j > ex[e].cidx => ex[e].body[j] = "idle"

\* C4 (amended): on every rescue path on which the rescue does not itself
\* fail exactly one output is emitted, and none when it fails; either way
\* the chain has ended with the rescuing call and no later tool call is
\* dispatched.
C4_RescueEmitsOneUnlessFatal ==
  \A e \in ExecIds :
    /\ (Rescued(e) /\ Ended(e)) => ex[e].outs = (IF ex[e].fatal THEN 0 ELSE 1)
    /\ ex[e].last = "norun" => \A j \in 1..Len(ex[e].tools) : ex[e].body[j] = "idle"
    /\ ex[e].last = "error" =>
         /\ ex[e].cpc \in {"done", "failed"}
         /\ \A j \in 1..Len(ex[e].tools) : j > ex[e].cidx => ex[e].body[j] = "idle"

\* The first tool body of a turn threw, the rescue emitted its placeholder
\* and the second tool call was never started.
C4_Witness ==
  \E e \in ExecIds :
    /\ Len(ex[e].tools) = 2 /\ ex[e].body[1] = "thrown" /\ ex[e].body[2] = "idle"
    /\ ex[e].last = "error" /\ ex[e].cpc = "done" /\ ex[e].outs = 1

\* C5: the body of tool call i+1 has not started unless the chain observed a
\* signal for tool call i, and at most one tool call of a turn is started,
\* not returned and not superseded.
C5_ToolCallsOneAtATime ==
  \A e \in ExecIds :
    /\ \A i \in 1..Len(ex[e].tools) :
         (i > 1 /\ ex[e].body[i] # "idle") => Superseded(e, i - 1)
    /\ Cardinality({i \in 1..Len(ex[e].tools) :
                      Running(e, i) /\ ~Superseded(e, i)}) <= 1

\* The second tool body of a turn runs while the first, superseded by its
\* commit, has not returned yet.
C5_Witness ==
  \E e \in ExecIds :
    Len(ex[e].tools) = 2 /\ ex[e].body[1] = "after" /\ ex[e].body[2] = "run"

\* C6 (as stated): when the rescue of a turn fails, the caller's call is
\* rejected, and is not left waiting.
C6_FatalReachesCaller ==
  \A e \in ExecIds : ex[e].fatal => ex[e].cstat = "rejected"

SubmittedBy(n, k) ==
  /\ ex[n].via = "execute"
  /\ ex[ex[n].parent].tools[ex[n].pidx] = k

C11_CancelDuringCallGivesEmpty ==
  \A e \in ExecIds :
    (ex[e].via = "complete" /\ ex[e].cancelled # "no" /\ ex[e].cstat = "returned")
    => ex[e].result = Empty

\* C11 (amended): a call that was waiting for the swarm's output when
\* cancelOutput was called for the active agent has returned the empty
\* string, whatever its turn was doing; a call still queued behind an
\* earlier complete call is not touched by the cancel.
C11_CancelDuringWaitGivesEmpty ==
  /\ [](\A e \in ExecIds :
         ex[e].cancelled = "waiting"
           => (ex[e].cstat = "returned" /\ ex[e].result = Empty))
  /\ [][\A e \in ExecIds :
          (cancels' # cancels /\ ex[e].cstat = "queued") => ex'[e].cstat = "queued"]_vars

\* A complete call was cancelled while it was waiting and a tool body of its
\* turn was running: it returned the empty string, the tool body runs on.
C11_Witness ==
  \E e \in ExecIds :
    /\ ex[e].via = "complete" /\ ex[e].cancelled = "waiting"
    /\ ex[e].result = Empty /\ ex[e].cpc = "await"
    /\ \E i \in 1..Len(ex[e].tools) : ex[e].body[i] = "run"

StartedBodies(e) == {i \in DOMAIN ex[e].body : ex[e].body[i] # "idle"}

Min(a, b) == IF a < b THEN a ELSE b

\* C13: in a turn whose completion answered with N tool calls, on an agent
\* with maxToolCalls = M, at most min(N, M) tool bodies are started.
C13_AtMostMinStarted ==
  \A e \in ExecIds :
    Cardinality(StartedBodies(e)) <= Min(ex[e].ncalls, MaxToolCalls)

\* A turn whose answer held more tool calls than maxToolCalls and that has
\* started maxToolCalls bodies, all of them finished.
C13_Witness ==
  \E e \in ExecIds :
    /\ ex[e].ncalls > MaxToolCalls
    /\ Cardinality(StartedBodies(e)) = MaxToolCalls
    /\ ex[e].cpc = "done"
    /\ ex[e].pc = "done"

\* s is a prefix of t.
IsPrefix(s, t) == Len(s) <= Len(t) /\ SubSeq(t, 1, Len(s)) = s

RepliesInOrder(a, S) ==
  \A i, j \in 1..Len(history[a]) :
    (/\ i < j
     /\ history[a][i].role = "assistant" /\ history[a][i].of \in S
     /\ history[a][j].role = "assistant" /\ history[a][j].of \in S)
      => history[a][i].of <= history[a][j].of

C16_PopReturnsToFirst ==
  \A X, Y \in Agents : trail = <<X, Y, "pop">> => activeAgent = X

\* The sequence ran from a state reached by an earlier agent change, with two
\* different agents, and the client is back on the first.
C16_Witness ==
  /\ trail = <<"sales", "triage", "pop">>
  /\ activeAgent = "sales"
  /\ changes = 3
  /\ nav.pc = "popped"

C18_PrevOnEmptyStackGoesToDefault ==
  [][(nav.pc = "refset" /\ nav.empty /\ nav'.pc = "idle") =>
       /\ activeAgent' = DefaultAgent
       /\ GetActiveAgent(activeAgentStorage', Client) = DefaultAgent
       /\ agentChanged' = agentChanged + 1]_vars

\* changeToPrevAgent was the first operation of a fresh session and has
\* finished: the default agent is active and onAgentChanged ran once.
C18_Witness ==
  /\ changes = 0 /\ prevs = 1 /\ nav.pc = "idle"
  /\ trail = <<"pop", DefaultAgent>>
  /\ activeAgent = DefaultAgent
  /\ agentChanged = 1

\* The resque markers of turn e in the log of its agent.
Markers(e) ==
  {i \in 1..Len(history[ex[e].agent]) :
     history[ex[e].agent][i].role = "resque" /\ history[ex[e].agent][i].of = e}

\* Every resque marker of turn e is followed at once by the rescue prompt.
PromptFollows(e) ==
  \A i \in Markers(e) :
    /\ i < Len(history[ex[e].agent])
    /\ history[ex[e].agent][i + 1] = Msg("user", e, "flush-prompt")

\* EXECUTE_FN of turn e has ended and its answer was a text that failed the
\* agent's validation.
TextFailed(e) ==
  /\ ex[e].pc \in {"done", "rejected"}
  /\ ex[e].ncalls = 0
  /\ \E i \in Markers(e) : history[ex[e].agent][i].text = "invalid-output"

Live(e) == ex[e].pc \in {"queued", "completion"}

C21_RunLeavesHistory ==
  [][runs' # runs => history' = history]_vars

\* Two run calls have returned, one with the valid text and one with the
\* empty string, and the logs are still empty.
C21_Witness ==
  /\ \E r, q \in RunIds :
       /\ runs[r].pc = "done" /\ runs[r].result = "ok"
       /\ runs[q].pc = "done" /\ runs[q].result = ""
  /\ \A a \in Agents : history[a] = <<>>

\* C22 (as stated): the session is disposed by makeAutoDispose only when
\* timeoutSeconds whole seconds have passed since the last tick().
C22_TickResetsTimer ==
  autoDispose.disposed => autoDispose.idle >= TimeoutSeconds

\* C23 (as stated): a changeAgent call that names an agent outside the
\* agentList of the client's swarm leaves the active agent and the navigation
\* stack as they were.
C23_NonMemberRejected ==
  [][(changes' # changes /\ trail'[Len(trail')] \notin Agents)
       => (activeAgent' = activeAgent /\ navigationStack' = navigationStack)]_vars

\* C24 (as stated): once every send and every execute of a client connected
\* through makeConnection has returned, the connector has been called once
\* for each of them.
C24_ConnectorPerTurn ==
  (\A e \in ExecIds :
     \/ ex[e].via = "none"
     \/ ex[e].via = "send" /\ ex[e].cstat = "delivered"
     \/ ex[e].via = "execute" /\ ex[e].cstat = "returned")
  => Len(outputList) = Cardinality({e \in ExecIds : ex[e].via # "none"})

\* The statuses on which a dispatch chain stops.
StopStatuses == {"agent-change", "stop", "rescue", "error"}

\* C25: once the dispatch chain of a turn has observed agent-change,
\* tool-stop, rescue or tool-error at tool call i, the calls after i are never
\* started and the chain stays at i, whatever is signalled later.
C25_NoStartAfterStop ==
  /\ [](\A e \in ExecIds :
         ex[e].last \in StopStatuses =>
           \A j \in 1..Len(ex[e].tools) : j > ex[e].cidx => ex[e].body[j] = "idle")
  /\ [][\A e \in ExecIds :
          ex[e].last \in StopStatuses =>
            /\ ex'[e].cidx = ex[e].cidx
            /\ ex'[e].body = ex[e].body \/ ex'[e].cpc \notin {"ready", "await"}]_vars

\* A turn of two tool calls was stopped at the first by a signal that was not
\* its own tool's commit, the first tool committed its output afterwards, and
\* the second tool was not started.
C25_Witness ==
  \E e \in ExecIds :
    /\ Len(ex[e].tools) = 2 /\ ex[e].cidx = 1
    /\ ex[e].last \in StopStatuses
    /\ ex[e].body[1] \in {"after", "ret"} /\ ex[e].tools[1] = "commit"
    /\ ex[e].body[2] = "idle"

\* C26 (as stated): when tool call k of a turn fails its lookup or its
\* validation, every call before k has been dispatched.
C26_EarlierDispatched ==
  \A e \in ExecIds :
    (ex[e].last = "norun" /\ FirstBad(ex[e].tools) > 0) =>
      \A j \in 1..(FirstBad(ex[e].tools) - 1) : ex[e].body[j] # "idle"

\* C26 (amended): every tool call of the answer is looked up and validated
\* before the first one is dispatched: a turn in which a tool body has started
\* has no call that fails lookup or validation, and a turn that has one ends
\* in the rescue with none of its calls dispatched.
C26_ValidatedBeforeDispatch ==
  \A e \in ExecIds :
    /\ (\E j \in 1..Len(ex[e].tools) : ex[e].body[j] # "idle")
         => FirstBad(ex[e].tools) = 0
    /\ FirstBad(ex[e].tools) > 0
         => (ex[e].last = "norun" /\ ex[e].resc > 0 /\ ex[e].cidx = 0)

\* The second tool call of a turn failed its lookup: the turn was rescued and
\* has ended, and the first tool call, found and valid, was never dispatched.
C26_Witness ==
  \E e \in ExecIds :
    /\ ex[e].tools = <<"commit", "missing">>
    /\ ex[e].last = "norun" /\ ex[e].pc = "done" /\ ex[e].outs = 1
    /\ ex[e].body[1] = "idle"

\* C27 (as stated): under the recomplete strategy the rescue hands back the
\* content of its new completion, so no caller receives a placeholder.
C27_RecompleteReturnsContent ==
  strategy = "recomplete" =>
    \A e \in ExecIds : ex[e].cstat = "returned" => ex[e].result.k # "ph"

\* C28: under every strategy and on every path, each invocation of
\* _resurrectModel has called onResurrect once and has fired the rescue signal
\* once: per turn the three counts are equal.
C28_OneSignalPerRescue ==
  \A e \in ExecIds : ex[e].onres = ex[e].resc /\ ex[e].sig = ex[e].resc

\* Under a strategy that completes again, a turn was rescued twice: the
\* completion of one rescue answered with tool calls and that of the other
\* with a text that failed validation, and two signals were fired.
C28_Witness ==
  /\ strategy # "flush"
  /\ \E e \in ExecIds :
       /\ ex[e].resc = 2 /\ ex[e].sig = 2 /\ ex[e].onres = 2
       /\ \E i, j \in 1..Len(history[ex[e].agent]) :
            /\ history[ex[e].agent][i] = Msg("resque", e, "no-tool-calls")
            /\ history[ex[e].agent][j] = Msg("resque", e, "failed-validation")

\* C29: the expiry of the tool watchdog prints its warning and changes
\* nothing else: the tool body, the chain and the call it waits on, the
\* history and the callers are as they were, and the warning is only ever
\* printed for a tool call that was started.
C29_WatchdogOnlyWarns ==
  /\ [](\A w \in toolWarnings : ex[w[1]].body[w[2]] # "idle")
  /\ [][toolWarnings' # toolWarnings =>
          /\ ex' = ex /\ history' = history /\ agentQueue' = agentQueue
          /\ \E e \in ExecIds :
               /\ toolWarnings' = toolWarnings \cup {<<e, ex[e].cidx>>}
               /\ ex'[e].cpc = "await"]_vars

\* The warning was printed for the first tool call of a turn, the tool
\* committed its output afterwards, the chain moved on and the second tool
\* call ran to its commit: the turn ended as one without warning does.
C29_Witness ==
  \E e \in ExecIds :
    /\ <<e, 1>> \in toolWarnings
    /\ ex[e].tools = <<"commit", "commit">>
    /\ ex[e].cpc = "done" /\ ex[e].last = "commit" /\ ex[e].cidx = 2

\* The tool messages that the tools of turn e have committed to the log of
\* agent a.
ToolOutputs(e, a) ==
  Cardinality({k \in 1..Len(history[a]) : history[a][k] = Msg("tool", e, "output")})

\* C30 (as stated): when the chain of a turn has started tool call i + 1, the
\* outputs of the i tool calls before it are in the history of its agent.
C30_OutputBeforeNextCall ==
  \A e \in ExecIds : \A i \in 1..Len(ex[e].tools) :
    ex[e].body[i] # "idle" => ToolOutputs(e, ex[e].agent) >= i - 1

\* The tool messages in the log of agent a, whichever turn committed them.
AgentToolOutputs(a) ==
  Cardinality({k \in 1..Len(history[a]) : history[a][k].role = "tool"})

\* The tool-commit signals the chain of turn e has observed.
CommitsObserved(e) ==
  (IF ex[e].cidx > 1 THEN ex[e].cidx - 1 ELSE 0)
    + (IF ex[e].last = "commit" THEN 1 ELSE 0)

\* C30 (amended): a chain moves on by tool-commit only in a step that has
\* appended the committed tool message to the history of its agent, so the
\* history holds a tool message for every tool-commit a chain has observed;
\* the message is that of the chain's own previous tool unless another turn of
\* the agent committed first.
C30_CommitInHistoryBeforeAdvance ==
  /\ [](\A e \in ExecIds : CommitsObserved(e) <= AgentToolOutputs(ex[e].agent))
  /\ [][\A e \in ExecIds :
          (ex[e].cpc = "await" /\ CommitsObserved(e)' > CommitsObserved(e)) =>
            LET h == history'[ex[e].agent]
            IN /\ Len(h) = Len(history[ex[e].agent]) + 1
               /\ h[Len(h)].role = "tool"]_vars

\* The first tool of a turn committed its output, the message is in the
\* history of the agent, and the chain has started the second tool call.
C30_Witness ==
  \E e \in ExecIds :
    /\ ex[e].tools = <<"commit", "commit">>
    /\ ex[e].body[1] \in {"after", "ret"} /\ ex[e].body[2] = "run"
    /\ ToolOutputs(e, ex[e].agent) = 1

\* C31: cancelOutput for an agent that is not the active one leaves every
\* call as it was; cancelOutput for the active agent and cancelOutputForce
\* resolve every pending wait with the empty string.
C31_CancelOnlyForActiveAgent ==
  [][/\ \A a \in Agents :
          (CancelOutput(a) /\ a = activeAgent) =>
            (\A e \in ExecIds :
               ex[e].cstat = "waiting" =>
                 (ex'[e].cstat = "returned" /\ ex'[e].result = Empty))
     /\ \A a \in Agents :
          (CancelOutput(a) /\ a # activeAgent) =>
            (\A e \in ExecIds :
               ex'[e].cstat = ex[e].cstat /\ ex'[e].result = ex[e].result)
     /\ CancelOutputForce =>
            (\A e \in ExecIds :
               ex[e].cstat = "waiting" =>
                 (ex'[e].cstat = "returned" /\ ex'[e].result = Empty))]_vars

\* cancelOutput was called for an agent that is not the active one while a
\* complete call was waiting: the call still waits, unmarked.
C31_Witness ==
  /\ cancels = 1
  /\ \E e \in ExecIds :
       /\ ex[e].via = "complete" /\ ex[e].cstat = "waiting"
       /\ ex[e].cancelled = "no" /\ ex[e].pc = "completion"

\* The item map after the first k calls of the storage were applied to base,
\* one after the other in call order.
RECURSIVE Applied(_, _)
Applied(k, base) ==
  IF k = 0 THEN base ELSE Mutate(Applied(k - 1, base), storage.calls[k].op)

\* C32: a mutation of a storage starts only when every earlier one has
\* settled, and the data each call hands to setData is the result of the
\* calls up to it, applied in call order.
C32_MutationsInCallOrder ==
  /\ [](\A k \in StorageCalls :
         /\ storage.calls[k].pc \in {"persist", "done"}
              => storage.calls[k].data = Applied(k, EmptyItems)
         /\ storage.calls[k].pc \in {"embedding", "persist"}
              => \A j \in StorageCalls :
                   j # k => storage.calls[j].pc \in {"none", "queued", "done"})
  /\ [][\A k \in StorageCalls :
          (storage.calls[k].pc = "queued" /\ storage'.calls[k].pc # "queued")
            => \A j \in StorageCalls : j < k => storage.calls[j].pc = "done"]_vars

\* Three calls were made while the first was still awaiting its embedding,
\* and all three have settled: a remove of the item the first call upserted,
\* and an upsert of the other item.
C32_Witness ==
  /\ \A k \in StorageCalls : storage.calls[k].pc = "done"
  /\ storage.calls[1].op = [kind |-> "upsert", id |-> 1, value |-> "x"]
  /\ storage.calls[2].op = [kind |-> "remove", id |-> 1, value |-> NoValue]
  /\ storage.calls[3].op = [kind |-> "upsert", id |-> 2, value |-> "y"]
  /\ storage.calls[3].data = [i \in ItemIds |-> IF i = 2 THEN "y" ELSE NoValue]

\* The number of calls the storage has received.
Issued == Cardinality({k \in StorageCalls : storage.calls[k].pc # "none"})

\* C40: once waitForInit and every mutation the storage received have
\* finished, the item map is the loaded data with the mutations applied in
\* call order, whether they were issued before, while or after the loading.
C40_MutationSurvivesInit ==
  (/\ storage.init = "done"
   /\ \A k \in StorageCalls : storage.calls[k].pc \in {"none", "done"})
    => storage.itemMap = Applied(Issued, InitialData)

\* The pushes of the list that have their key.
Keyed == {p \in Pushes : persistList.pushes[p].pc \in {"write", "done"}}

\* The pops of the list that have removed an item.
Popped == {q \in Pops : persistList.pops[q].pc = "done" /\ persistList.pops[q].result # NoItem}

\* C33 as stated: the keys of the pushes of one list strictly increase and
\* never repeat, and a push never gets the key of an item that a pop has
\* removed before.
C33_KeysNeverReused ==
  /\ [](\A p1, p2 \in Keyed :
         p1 < p2 => persistList.pushes[p1].key < persistList.pushes[p2].key)
  /\ [][\A p \in Pushes :
          (p \notin Keyed /\ persistList'.pushes[p].pc = "write")
            => \A q \in Popped :
                 persistList'.pushes[p].key # persistList.pops[q].key]_vars

\* C33: the keys of the pushes of one list strictly increase in call order
\* and never repeat, a new key is never the key of a stored item, and it is
\* never the key of an item that a pop removed after the list had set its last
\* count; the key of an item removed before the first push of the list can be
\* given again.
C33_KeysIncrease ==
  /\ [](\A p1, p2 \in Keyed :
         p1 < p2 => persistList.pushes[p1].key < persistList.pushes[p2].key)
  /\ [](persistList.lastCount # Null =>
         \A k \in StoredKeys(persistList.files) : k <= persistList.lastCount)
  /\ [][\A p \in Pushes :
          (p \notin Keyed /\ persistList'.pushes[p].pc = "write")
            => /\ persistList'.pushes[p].key \notin StoredKeys(persistList.files)
               /\ \A q \in Popped :
                    persistList.pops[q].counted =>
                      persistList'.pushes[p].key # persistList.pops[q].key]_vars

\* Two pushes have their keys, and a pop has removed the item of the first
\* before the second got its key.
C33_Witness ==
  /\ Keyed = Pushes
  /\ \E q \in Popped :
       /\ persistList.pops[q].counted
       /\ persistList.pops[q].result = NewItem(1)
       /\ persistList.pops[q].key < persistList.pushes[2].key

\* C34: a pop takes the highest key the directory has when it reads it, or
\* returns null when the directory has none; it returns the item stored under
\* that key and removes its file; no pop throws, and no two pops return the
\* same item.
C34_PopTakesLast ==
  /\ [](\A q \in Pops : persistList.pops[q].pc # "failed")
  /\ [](\A q1, q2 \in Popped :
         q1 # q2 => persistList.pops[q1].result # persistList.pops[q2].result)
  /\ [][\A q \in Pops :
          /\ (persistList.pops[q].pc = "lastkey" /\ persistList'.pops[q].pc # "lastkey")
               => (IF StoredKeys(persistList.files) = {}
                     THEN persistList'.pops[q].pc = "done" /\ persistList'.pops[q].result = NoItem
                     ELSE /\ persistList'.pops[q].pc = "read"
                          /\ persistList'.pops[q].key \in StoredKeys(persistList.files)
                          /\ \A k \in StoredKeys(persistList.files) : k <= persistList'.pops[q].key)
          /\ (persistList.pops[q].pc = "remove" /\ persistList'.pops[q].pc # "remove")
               => (/\ persistList'.pops[q].pc = "done"
                   /\ persistList'.pops[q].result = persistList.files[persistList.pops[q].key]
                   /\ persistList'.pops[q].result # NoItem
                   /\ persistList'.files[persistList.pops[q].key] = NoItem)]_vars

\* Two pops were called over a directory of two items; the first has
\* returned the item of key 2 and the second, which waited for it, the item of
\* key 1.
C34_Witness ==
  /\ persistList.pops[1].pc = "done" /\ persistList.pops[1].result = OldItem(2)
  /\ persistList.pops[2].pc = "done" /\ persistList.pops[2].result = OldItem(1)
  /\ \A p \in Pushes : persistList.pushes[p].pc = "none"

\* C35: when the dispatch chain of a turn whose tool calls all passed lookup
\* and validation has ended, after the last tool-commit or cut short by
\* agent-change, tool-stop, rescue or tool-error, onAfterToolCalls has been
\* called exactly once for the turn.
C35_AfterToolCallsOnce ==
  \A e \in ExecIds :
    (ex[e].cpc \in {"done", "failed"} /\ ex[e].last # "norun") => ex[e].after = 1

\* The chain of turn e waits for the first signal of its tool call i.
WaitsAt(e, i) == ex[e].cpc = "await" /\ ex[e].cidx = i

ChainStays(c) == ex'[c].cpc = ex[c].cpc /\ ex'[c].cidx = ex[c].cidx

\* The chain of turn c has left the tool call it waited on: it is at the next
\* one, or it has ended.
ChainMovesOn(c) ==
  \/ ex'[c].cpc = "ready" /\ ex'[c].cidx = ex[c].cidx + 1
  \/ ex'[c].cpc = "done" /\ ex'[c].cidx = ex[c].cidx

\* C37 as stated: the commit of tool call i of turn e moves on only the chain
\* of turn e, waiting on tool call i.
C37_CommitAdvancesOwnChainOnly ==
  [][\A e \in ExecIds, i \in ToolIdx :
       ToolCommit(e, i) =>
         \A c \in ExecIds : (c # e \/ ex[c].cidx # i) => ChainStays(c)]_vars

\* C37: the commit of a tool call moves on every chain that waits on the
\* signals of the agent the output is committed to, whichever turn and tool
\* call the commit belongs to, and no other chain.
C37_CommitAdvancesEveryWaitingChain ==
  [][\A e \in ExecIds, i \in ToolIdx :
       ToolCommit(e, i) =>
         \A c \in ExecIds :
           IF ex[c].cpc = "await" /\ ex[c].agent = activeAgent
             THEN ChainMovesOn(c)
             ELSE ChainStays(c)]_vars

\* The chain of a turn is past its first tool call while the body of that
\* call has not committed yet: the commit of another turn has moved it on.
C37_Witness ==
  \E c \in ExecIds :
    /\ ex[c].tools = <<"commit", "commit">>
    /\ ex[c].body[1] = "run"
    /\ ex[c].cidx = 2

\* The body of tool call i of turn e fires one of the signals in this step.
ToolSignal(e, i) == ToolCommit(e, i) \/ ToolStop(e, i) \/ ToolThrow(e, i)

MaxRescues == 2
MaxCompletions == 2 + 2 * MaxRescues

\* C39: under every strategy a turn makes at most two rescues and at most six
\* completion calls, and the EXECUTE_FN of a turn whose completion answered
\* without tool calls has ended when its completion calls have returned, with
\* an output or with the failure of its rescue.
C39_BoundedRescue ==
  /\ [](\A e \in ExecIds : ex[e].resc <= MaxRescues /\ ex[e].ncomp <= MaxCompletions)
  /\ [][\A e \in ExecIds :
          (ExecuteCompletion(e) /\ ex'[e].tools = <<>>)
            => /\ Ended(e)'
               /\ (ex'[e].outs = 1 \/ ex'[e].fatal)]_vars

\* Under recomplete a turn without tool calls has made its two rescues and
\* its six completion calls, and has ended with the failure of the rescue.
C39_Witness ==
  \E e \in ExecIds :
    /\ strategy = "recomplete"
    /\ ex[e].tools = <<>>
    /\ ex[e].resc = MaxRescues
    /\ ex[e].ncomp = MaxCompletions
    /\ ex[e].fatal
    /\ Ended(e)

====
